---- MODULE Spec2Model ----
(***************************************************************************)
(* A model of the instance event bus ($on, $once, $off, $emit) of          *)
(* src/unnamed/part_000 and of the instance lifecycle (initLifecycle,      *)
(* $destroy, activateChildComponent, deactivateChildComponent, callHook)   *)
(* of src/src/core/instance/lifecycle.js, and of _render of                *)
(* src/src/core/instance/render.js.                                        *)
(*                                                                         *)
(* JavaScript is single threaded: the program is a call stack.  `stack`    *)
(* holds the frames of the calls in progress, the last one running.  User  *)
(* code (event callbacks, hook functions) is a frame that may make API     *)
(* calls and then returns or throws.                                       *)
(***************************************************************************)
EXTENDS Integers, Sequences, FiniteSets, TLC

\* ------------------------------------------------------------------ bounds
MaxInst  == 2   \* component instances created in one behaviour
MaxSubs  == 3   \* longest subscriber list of one event
MaxOnce  == 1   \* $once wrappers created in one behaviour
MaxCalls == 1   \* API calls the callbacks of one outermost call make in all
MaxHooks == 1   \* hook functions an instance declares for one phase
MaxWatch == 1   \* watchers one instance owns
MaxRender == 3  \* VNode objects made in one behaviour
MaxDepth == 3   \* instances in all once patches have created their children
MaxFlush == 1   \* flushes of the scheduler queue in one behaviour
MaxHandlers == 2  \* hook functions of the phase in a direct callHook call
MaxPhase == 1   \* direct callHook calls for one phase in one behaviour

Ids == 1..MaxDepth

\* ------------------------------------------------------------------ values
\* The names used as event names and hook names, with their characters, so
\* that "hook:" + hook and hookRE are computed on the text of the name.
Chars ==
  "e" :> <<"e">> @@
  "hook:beforeDestroy" :> <<"h", "o", "o", "k", ":", "b", "e", "f", "o", "r", "e", "D", "e", "s", "t", "r", "o", "y">> @@
  "hook:destroyed" :> <<"h", "o", "o", "k", ":", "d", "e", "s", "t", "r", "o", "y", "e", "d">> @@
  "beforeDestroy" :> <<"b", "e", "f", "o", "r", "e", "D", "e", "s", "t", "r", "o", "y">> @@
  "destroyed" :> <<"d", "e", "s", "t", "r", "o", "y", "e", "d">> @@
  "beforeMount" :> <<"b", "e", "f", "o", "r", "e", "M", "o", "u", "n", "t">> @@
  "mounted" :> <<"m", "o", "u", "n", "t", "e", "d">> @@
  "beforeUpdate" :> <<"b", "e", "f", "o", "r", "e", "U", "p", "d", "a", "t", "e">> @@
  "updated" :> <<"u", "p", "d", "a", "t", "e", "d">> @@
  "hook:beforeMount" :> <<"h", "o", "o", "k", ":", "b", "e", "f", "o", "r", "e", "M", "o", "u", "n", "t">> @@
  "hook:mounted" :> <<"h", "o", "o", "k", ":", "m", "o", "u", "n", "t", "e", "d">> @@
  "hook:beforeUpdate" :> <<"h", "o", "o", "k", ":", "b", "e", "f", "o", "r", "e", "U", "p", "d", "a", "t", "e">> @@
  "hook:updated" :> <<"h", "o", "o", "k", ":", "u", "p", "d", "a", "t", "e", "d">> @@
  "hook:" :> <<"h", "o", "o", "k", ":">>

Names == DOMAIN Chars

\* The name whose text is the sequence cs.
NameOf(cs) == CHOOSE n \in Names : Chars[n] = cs

\* "hook:" + hook  (lifecycle.js:475)
HookEvent(hook) == NameOf(Chars["hook:"] \o Chars[hook])

EvPlain == "e"
EventNames == {EvPlain, "hook:beforeDestroy", "hook:destroyed"}

\* The user functions that may be subscribed.
Fns == {"f", "g"}

\* A subscriber list entry: a user function, or the wrapper `on` that $once
\* creates (a fresh function object, `id`, carrying the original as on.fn).
PlainCb(f)    == [k |-> "fn", f |-> f, id |-> 0]
OnceCb(f, id) == [k |-> "once", f |-> f, id |-> id]
\* What reading past the end of a JavaScript array yields.
Undefined     == [k |-> "undefined", f |-> "", id |-> 0]

\* vm._events[event]: a missing or null entry, or an array of callbacks.
NoList     == [has |-> FALSE, cbs |-> <<>>]
ListOf(s)  == [has |-> TRUE, cbs |-> s]

\* vm._events after initEvents: Object.create(null) (part_000:14)
NoEvents == [e \in EventNames |-> NoList]

\* The values a render function may hand back and the fields _vnode and
\* $vnode may hold: a VNode object (id is its identity, elm the element the
\* patch gave it, 0 for none; isComment marks the empty placeholder; parent is
\* the id of its placeholder vnode, 0 for none), an array of len nodes whose
\* first is the VNode id, null or undefined, or any other value.
VNodeOf(id, isComment) ==
  [k |-> "vnode", id |-> id, elm |-> 0, isComment |-> isComment, len |-> 0, parent |-> 0]
ArrayOf(n, id) ==
  [k |-> "array", id |-> id, elm |-> 0, isComment |-> FALSE, len |-> n, parent |-> 0]
Null ==
  [k |-> "null", id |-> 0, elm |-> 0, isComment |-> FALSE, len |-> 0, parent |-> 0]
NotVNode ==
  [k |-> "other", id |-> 0, elm |-> 0, isComment |-> FALSE, len |-> 0, parent |-> 0]

VARIABLES
  nInst,          \* number of instances created; they are 1..nInst
  inst,           \* instance id -> its lifecycle fields (see NewInstance)
  _events,        \* instance id -> vm._events: event name -> NoList or ListOf(..)
  _hasHookEvent,  \* instance id -> vm._hasHookEvent
  stack,          \* the call stack
  onceUid,        \* number of $once wrappers created so far
  ncalls,         \* API calls made by callbacks since the stack was last empty
  calls,          \* ghost: wrapper id -> times its original fn was invoked
  uncaught,       \* ghost: an exception reached the outermost caller
  lastOff,        \* ghost: what the last API call, if a $off(event, fn), removed
  log,            \* ghost: instance id -> the hooks fired and hook listeners called
  sticky,         \* ghost: instance id -> progress of a direct deactivation
  world,          \* process-wide state: the build mode, the vnodes and elements made
  rlast           \* ghost: the last call of _render and the update that followed

evVars   == <<_events, _hasHookEvent, onceUid, calls, uncaught, lastOff>>
renderVars == <<world, rlast>>
lifeVars == <<nInst, inst, log, sticky, world, rlast>>
vars     == <<nInst, inst, _events, _hasHookEvent, stack, onceUid, ncalls, calls,
              uncaught, lastOff, log, sticky, world, rlast>>

\* ------------------------------------------------------------ pure helpers
RemoveAt(s, k) == SubSeq(s, 1, k - 1) \o SubSeq(s, k + 1, Len(s))

\* Ghost counters stop at "more than once".
Sat(n) == IF n > 2 THEN 2 ELSE n

\* hookRE = /^hook:/ (part_000:80), applied with hookRE.test(event)
HookRE(e) ==
  /\ Len(Chars[e]) >= Len(Chars["hook:"])
  /\ SubSeq(Chars[e], 1, Len(Chars["hook:"])) = Chars["hook:"]

\* cb === fn || cb.fn === fn (part_000:188); `fn` is a callback value: a
\* user function or, for the wrapper's own $off(event, on), the wrapper.
Matches(cb, fn) ==
  \/ cb = fn
  \/ cb.k = "once" /\ fn.k = "fn" /\ cb.f = fn.f

\* The mutant of OffIndex: the scan runs from the front of the array.
OffIndexFirst(cbs, fn) ==
  IF \E k \in 1..Len(cbs) : Matches(cbs[k], fn)
  THEN CHOOSE k \in 1..Len(cbs) :
         Matches(cbs[k], fn) /\ \A j \in 1..(k - 1) : ~Matches(cbs[j], fn)
  ELSE 0

\* let i = cbs.length; while (i--) { if (match) { splice; break } }
\* (part_000:183-192): the index spliced out, 0 when nothing matches.
OffIndex(cbs, fn) ==
  IF \E k \in 1..Len(cbs) : Matches(cbs[k], fn)
  THEN CHOOSE k \in 1..Len(cbs) :
         Matches(cbs[k], fn) /\ \A j \in (k + 1)..Len(cbs) : ~Matches(cbs[j], fn)
  ELSE 0

\* (vm._events[event] || (vm._events[event] = [])).push(fn)  (part_000:102)
OnPush(evs, e, cb) ==
  [evs EXCEPT ![e] = ListOf((IF evs[e].has THEN evs[e].cbs ELSE <<>>) \o <<cb>>)]

\* $off(event, fn) for one event name (part_000:168-193)
OffFn(evs, e, fn) ==
  IF ~evs[e].has THEN evs
  ELSE LET k == OffIndex(evs[e].cbs, fn)
       IN  IF k = 0 THEN evs ELSE [evs EXCEPT ![e] = ListOf(RemoveAt(evs[e].cbs, k))]

\* $off(event): vm._events[event] = null when a list exists (part_000:172-180)
OffEvent(evs, e) == IF ~evs[e].has THEN evs ELSE [evs EXCEPT ![e] = NoList]

\* $off(): vm._events = Object.create(null) (part_000:155-158)
OffAll(evs) == NoEvents

\* Count of the entries of cbs that $off(event, fn) would match.
RECURSIVE CountMatches(_, _)
CountMatches(cbs, fn) ==
  IF cbs = <<>> THEN 0
  ELSE (IF Matches(cbs[1], fn) THEN 1 ELSE 0) + CountMatches(Tail(cbs), fn)

\* ------------------------------------------------------------ the call stack
Top == stack[Len(stack)]

Below == SubSeq(stack, 1, Len(stack) - 1)

TopIs(t) == IF stack = <<>> THEN FALSE ELSE Top.t = t

\* The running code may make an API call: the outermost caller, or a user
\* function while the callbacks have calls left.
CanCall == IF stack = <<>> THEN TRUE ELSE (Top.t = "fn" /\ ncalls < MaxCalls)

\* The count of calls made by callbacks, after one more call by the running code.
Called == IF stack = <<>> THEN 0 ELSE ncalls + 1

\* The same count once the running frame has returned.
Popped == IF Len(stack) = 1 THEN 0 ELSE ncalls

\* An in-flight $emit that iterates the array object itself (no copy) keeps
\* reading that object; when vm._events[event] is overwritten (null, or a
\* fresh map) the object is no longer the subscriber list and no longer
\* changes, so the frame keeps its content at that moment.
Detach(s, v, evs, cleared) ==
  [k \in 1..Len(s) |->
     IF s[k].t = "emit" /\ s[k].vm = v /\ s[k].live /\ s[k].ev \in cleared
        /\ evs[s[k].ev].has
     THEN [s[k] EXCEPT !.live = FALSE, !.cbs = evs[s[k].ev].cbs]
     ELSE s[k]]

\* The array an emit frame iterates, as it is now.
FrameCbs(fr) == IF fr.live THEN _events[fr.vm][fr.ev].cbs ELSE fr.cbs

\* cbs[i] (part_000:226)
FrameAt(fr) == IF fr.i <= Len(FrameCbs(fr)) THEN FrameCbs(fr)[fr.i] ELSE Undefined

\* A user function starts running: called by $emit with the callback cb of
\* event ev, or by callHook (cb a hook function).
FnFrame(v, cb, ev, pending) ==
  [t |-> "fn", vm |-> v, f |-> cb.f, w |-> cb, ev |-> ev, pending |-> pending]

\* ------------------------------------------------------------------- $on
\* Vue.prototype.$on (part_000:88-126).  `names` is the array form; a string
\* event is the one-name case (the array branch calls $on once per name).
RECURSIVE OnEvents(_, _, _)
OnEvents(evs, names, cb) ==
  IF names = <<>> THEN evs
  ELSE OnEvents(OnPush(evs, names[1], cb), Tail(names), cb)

\* The mutant of OnFlag: the flag is never set.
OnFlagNever(flag, names) == flag

\* if (hookRE.test(event)) vm._hasHookEvent = true  (part_000:119-122)
OnFlag(flag, names) == flag \/ \E k \in 1..Len(names) : HookRE(names[k])

\* The subscriber lists stay within the bound.
Room(evs, names) ==
  \A k \in 1..Len(names) : Len(OnEvents(evs, names, Undefined)[names[k]].cbs) <= MaxSubs

On(v, names, f) ==
  /\ CanCall
  /\ v <= nInst
  /\ Room(_events[v], names)
  /\ _events' = [_events EXCEPT ![v] = OnEvents(@, names, PlainCb(f))]
  /\ _hasHookEvent' = [_hasHookEvent EXCEPT ![v] = OnFlag(@, names)]
  /\ ncalls' = Called
  /\ lastOff' = "none"
  /\ UNCHANGED <<stack, onceUid, calls, uncaught>>
  /\ UNCHANGED lifeVars

\* ----------------------------------------------------------------- $once
\* The mutant of OnceOffFirst: the wrapper calls fn before it unsubscribes.
OnceOffLast == FALSE

\* function on() { vm.$off(event, on); fn.apply(vm, arguments) }
\* (part_000:137-140): the wrapper unsubscribes itself before it calls fn.
OnceOffFirst == TRUE

\* Vue.prototype.$once (part_000:131-145)
Once(v, e, f) ==
  /\ CanCall
  /\ v <= nInst
  /\ onceUid < MaxOnce
  /\ Room(_events[v], <<e>>)
  /\ onceUid' = onceUid + 1
  /\ _events' = [_events EXCEPT ![v] = OnEvents(@, <<e>>, OnceCb(f, onceUid + 1))]
  /\ _hasHookEvent' = [_hasHookEvent EXCEPT ![v] = OnFlag(@, <<e>>)]
  /\ ncalls' = Called
  /\ lastOff' = "none"
  /\ UNCHANGED <<stack, calls, uncaught>>
  /\ UNCHANGED lifeVars

\* ------------------------------------------------------------------ $off
RECURSIVE OffFnEvents(_, _, _)
OffFnEvents(evs, names, fn) ==
  IF names = <<>> THEN evs
  ELSE OffFnEvents(OffFn(evs, names[1], fn), Tail(names), fn)

RECURSIVE OffEvents(_, _)
OffEvents(evs, names) ==
  IF names = <<>> THEN evs
  ELSE OffEvents(OffEvent(evs, names[1]), Tail(names))

\* Ghost: what $off(event, fn) finds in the list lst: nothing ("miss"), the
\* last of several registrations ("dup"), a $once wrapper ("once"), or the
\* single registration of fn ("plain").
OffKind(lst, fn) ==
  IF ~lst.has \/ OffIndex(lst.cbs, fn) = 0 THEN "miss"
  ELSE IF CountMatches(lst.cbs, fn) >= 2 THEN "dup"
  ELSE IF lst.cbs[OffIndex(lst.cbs, fn)].k = "once" THEN "once"
  ELSE "plain"

\* $off() (part_000:155-158)
Off0(v) ==
  /\ CanCall
  /\ v <= nInst
  /\ _events' = [_events EXCEPT ![v] = OffAll(@)]
  /\ ncalls' = Called
  /\ stack' = Detach(stack, v, _events[v], EventNames)
  /\ lastOff' = "none"
  /\ UNCHANGED <<_hasHookEvent, onceUid, calls, uncaught>>
  /\ UNCHANGED lifeVars

\* $off(event) and $off([events]) (part_000:161-180)
Off1(v, names) ==
  /\ CanCall
  /\ v <= nInst
  /\ _events' = [_events EXCEPT ![v] = OffEvents(@, names)]
  /\ ncalls' = Called
  /\ stack' = Detach(stack, v, _events[v], {names[k] : k \in 1..Len(names)})
  /\ lastOff' = "none"
  /\ UNCHANGED <<_hasHookEvent, onceUid, calls, uncaught>>
  /\ UNCHANGED lifeVars

\* $off(event, fn) and $off([events], fn) (part_000:161-193)
Off2(v, names, f) ==
  /\ CanCall
  /\ v <= nInst
  /\ _events' = [_events EXCEPT ![v] = OffFnEvents(@, names, PlainCb(f))]
  /\ ncalls' = Called
  /\ lastOff' = IF Len(names) = 1 THEN OffKind(_events[v][names[1]], PlainCb(f))
                ELSE "array"
  /\ UNCHANGED <<stack, _hasHookEvent, onceUid, calls, uncaught>>
  /\ UNCHANGED lifeVars

\* ----------------------------------------------------------------- $emit
\* The mutant of EmitCopies: the array is never copied.
EmitCopiesNever(n) == FALSE

\* cbs = cbs.length > 1 ? toArray(cbs) : cbs  (part_000:218)
EmitCopies(n) == n > 1

\* The mutant of EmitGuarded: the callback is called without a try / catch.
EmitUnguarded == FALSE

\* invokeWithErrorHandling(cbs[i], vm, args, vm, info) (part_000:226): the
\* loop calls each callback through the error-handling helper.
EmitGuarded == TRUE

\* The start of Vue.prototype.$emit (part_000:196-223): look the list up,
\* copy it when it has more than one entry, fix the loop bound l.  The
\* stack s with the frame of the call on it; no frame when there is no list.
\* exp and inv are ghosts: the list when the call began, the callbacks called.
EmitPush(s, v, e) ==
  IF ~_events[v][e].has THEN s
  ELSE Append(s,
         [t |-> "emit", vm |-> v, ev |-> e,
          live |-> ~EmitCopies(Len(_events[v][e].cbs)),
          cbs |-> _events[v][e].cbs,
          i |-> 1, l |-> Len(_events[v][e].cbs),
          exp |-> _events[v][e].cbs, inv |-> <<>>, threw |-> 0])

\* vm.$emit(event) called by the running code.
EmitBegin(v, e) ==
  /\ CanCall
  /\ v <= nInst
  /\ ncalls' = Called
  /\ stack' = EmitPush(stack, v, e)
  /\ lastOff' = "none"
  /\ UNCHANGED <<_events, _hasHookEvent, onceUid, calls, uncaught>>
  /\ UNCHANGED lifeVars

\* One pass of the loop body (part_000:225-227): cbs[i] is called.  A once
\* wrapper first unsubscribes itself, then calls its original function.
EmitStep ==
  /\ TopIs("emit")
  /\ Top.i <= Top.l
  /\ LET fr  == Top
         cb  == FrameAt(fr)
         fr2 == [fr EXCEPT !.i = @ + 1, !.inv = Append(@, cb)]
     IN  IF cb.k = "undefined"
         THEN \* undefined.apply throws a TypeError inside the helper's try
              /\ IF EmitGuarded
                 THEN /\ stack' = Append(Below, [fr2 EXCEPT !.threw = IF @ = 0 THEN fr.i ELSE @])
                      /\ UNCHANGED <<uncaught, ncalls>>
                 ELSE /\ stack' = <<>>
                      /\ uncaught' = TRUE
                      /\ ncalls' = 0
              /\ UNCHANGED <<_events, calls, log>>
         ELSE /\ stack' = Append(Append(Below, fr2),
                    FnFrame(fr.vm, cb, fr.ev, cb.k = "once" /\ ~OnceOffFirst))
              /\ _events' = IF cb.k = "once" /\ OnceOffFirst
                            THEN [_events EXCEPT ![fr.vm] = OffFn(@, fr.ev, cb)]
                            ELSE _events
              /\ calls' = IF cb.k = "once"
                          THEN [calls EXCEPT ![cb.id] = Sat(@ + 1)]
                          ELSE calls
              /\ log' = IF HookRE(fr.ev)
                        THEN [log EXCEPT ![fr.vm] = Append(@, fr.ev)]
                        ELSE log
              /\ UNCHANGED <<uncaught, ncalls>>
  /\ UNCHANGED <<_hasHookEvent, onceUid, lastOff, nInst, inst, sticky>>
  /\ UNCHANGED renderVars

\* The loop is over: return vm (part_000:229).
EmitEnd ==
  /\ TopIs("emit")
  /\ Top.i > Top.l
  /\ stack' = Below
  /\ ncalls' = Popped
  /\ UNCHANGED evVars
  /\ UNCHANGED lifeVars

\* ----------------------------------------------------------- user functions
\* The mutant of HookGuarded: callHook calls the hook function directly.
HookUnguarded == FALSE

\* invokeWithErrorHandling(handlers[i], vm, null, vm, info) (lifecycle.js:466)
HookGuarded == TRUE

\* Whether the caller of the running user function catches what it throws.
CallerGuards == IF stack[Len(stack) - 1].t = "emit" THEN EmitGuarded ELSE HookGuarded

\* A user function returns normally.
FnReturn ==
  /\ TopIs("fn")
  /\ stack' = Below
  /\ _events' = IF Top.pending
                THEN [_events EXCEPT ![Top.vm] = OffFn(@, Top.ev, Top.w)]
                ELSE _events
  /\ UNCHANGED <<_hasHookEvent, onceUid, ncalls, calls, uncaught, lastOff>>
  /\ UNCHANGED lifeVars

\* A user function throws.  invokeWithErrorHandling catches the error and
\* reports it (handleError), and the loop of the caller ($emit, callHook)
\* goes on; without the helper the exception unwinds every caller.
FnThrow ==
  /\ TopIs("fn")
  /\ IF CallerGuards
     THEN /\ stack' = [Below EXCEPT ![Len(stack) - 1].threw =
                             IF @ = 0 THEN stack[Len(stack) - 1].i - 1 ELSE @]
          /\ UNCHANGED <<uncaught, ncalls>>
     ELSE /\ stack' = <<>>
          /\ uncaught' = TRUE
          /\ ncalls' = 0
  /\ UNCHANGED <<_events, _hasHookEvent, onceUid, calls, lastOff>>
  /\ UNCHANGED lifeVars

\* ------------------------------------------------------- provide and inject
\* The keys under which instances provide values, the values provided, and
\* the local names an instance may declare in its inject option.
PKeys == {"theme", "lang"}
PVals == {"dark", "light"}
LKeys == {"a", "b"}

\* In a _provided map: the key is not an own property.
NoProp == "none"

\* vm._provided: undefined until initProvide sets it (inject.js:10-15).
NoProvided == [has |-> FALSE, m |-> [k \in PKeys |-> NoProp]]

\* A property of the result of resolveInject: the value val read from the
\* _provided of instance `by`; the declared default, or what the default
\* function returned when called with this = by; or no property.
Provided(val, by) == [src |-> "provided", val |-> val, by |-> by]
DefaultValue      == [src |-> "default", val |-> "value", by |-> 0]
DefaultMade(by)   == [src |-> "default", val |-> "made", by |-> by]
NoValue           == [src |-> "absent", val |-> "", by |-> 0]

\* The result of resolveInject for a falsy inject option: undefined.
NoResult == [has |-> FALSE, m |-> [k \in LKeys |-> NoValue]]

\* The normalized inject option: undefined, or for each local name either
\* nothing or { from, default? } with the default a value or a function.
NoEntry == [decl |-> FALSE, from |-> "theme", dflt |-> "none"]
Entries ==
  {NoEntry} \cup [decl : {TRUE}, from : PKeys, dflt : {"none", "value", "function"}]
NoInject == [has |-> FALSE, m |-> [k \in LKeys |-> NoEntry]]
\* The inject options tried: any entry for "a"; for "b" no entry or
\* { from: "lang", default: value }.
Injects ==
  {NoInject} \cup
  [has : {TRUE},
   m : {m \in [LKeys -> Entries] :
          m["b"] \in {NoEntry, [decl |-> TRUE, from |-> "lang", dflt |-> "value"]}}]


\* ====================================================== instances, lifecycle
\* The fields initLifecycle sets (lifecycle.js:63-90), with the options it
\* reads; _watchers holds, for each watcher the instance owns, whether it is
\* active; _watcher is the index of the render watcher in it, 0 for null;
\* vmCount is vm._data.__ob__.vmCount.  _inactive is "null", "true", "false".
\* With them the fields initRender sets and the update reads: _vnode
\* (render.js:19), $vnode, $el (el, 0 for undefined), and the options
\* renderError (whether it is given) and _parentVnode; and _provided
\* (inject.js:13); and nHooks, the number of functions the options declare
\* for each phase (vm.$options[hook].length).
NewInstance(abs, optParent, par, rt) ==
  [abstract |-> abs, optParent |-> optParent, parent |-> par, root |-> rt,
   _vnode |-> Null, vnode |-> Null, el |-> 0, renderError |-> FALSE,
   _parentVnode |-> Null, _provided |-> NoProvided,
   children |-> <<>>, _watcher |-> 0, _watchers |-> <<>>,
   _inactive |-> "null", _directInactive |-> FALSE,
   _isMounted |-> FALSE, _isDestroyed |-> FALSE, _isBeingDestroyed |-> FALSE,
   vmCount |-> 1, nHooks |-> MaxHooks]

\* An instance id not created yet.
Blank == NewInstance(FALSE, 0, 0, 0)

\* while (parent.$options.abstract && parent.$parent) parent = parent.$parent
\* (lifecycle.js:54-56)
RECURSIVE FirstNonAbstract(_, _)
FirstNonAbstract(st, p) ==
  IF st[p].abstract /\ st[p].parent # 0 THEN FirstNonAbstract(st, st[p].parent) ELSE p

\* initLifecycle(vm) (lifecycle.js:41-91) for a new instance v with
\* options.parent = p (0 for none) and options.abstract = abs.
InitLifecycle(st, v, p, abs) ==
  LET par == IF p # 0 /\ ~abs THEN FirstNonAbstract(st, p) ELSE p
      st1 == IF p # 0 /\ ~abs
             THEN [st EXCEPT ![par].children = Append(@, v)]
             ELSE st
  IN  [st1 EXCEPT ![v] = NewInstance(abs, p, par, IF par # 0 THEN st[par].root ELSE v)]

\* new Vue(options): initLifecycle, then initEvents (part_000:12-35) with no
\* parent listeners, while fewer than max instances exist.
NewVue(p, abs, max) ==
  /\ CanCall
  /\ nInst < max
  /\ p <= nInst
  /\ nInst' = nInst + 1
  /\ inst' = InitLifecycle(inst, nInst + 1, p, abs)
  /\ _events' = [_events EXCEPT ![nInst + 1] = NoEvents]
  /\ _hasHookEvent' = [_hasHookEvent EXCEPT ![nInst + 1] = FALSE]
  /\ ncalls' = Called
  /\ lastOff' = "none"
  /\ UNCHANGED <<stack, onceUid, calls, uncaught, log, sticky>>
  /\ UNCHANGED renderVars

\* new Vue(options) while fewer than MaxInst instances exist.
Create(p, abs) == NewVue(p, abs, MaxInst)

\* new Watcher(vm, ...): the watcher is pushed onto vm._watchers, and a
\* render watcher becomes vm._watcher (lifecycle.js:291-310 for the render
\* watcher of mountComponent; vm.$watch for the others).
NewWatcher(v, isRender) ==
  /\ CanCall
  /\ v <= nInst
  /\ Len(inst[v]._watchers) < MaxWatch
  /\ inst' = [inst EXCEPT ![v]._watchers = Append(@, TRUE),
                          ![v]._watcher = IF isRender THEN Len(inst[v]._watchers) + 1 ELSE @]
  /\ ncalls' = Called
  /\ lastOff' = "none"
  /\ UNCHANGED <<nInst, log, sticky, stack>>
  /\ UNCHANGED renderVars
  /\ UNCHANGED <<_events, _hasHookEvent, onceUid, calls, uncaught>>

\* ------------------------------------------------- the tracking target (Dep)
\* pushTarget(target): targetStack.push(target); Dep.target = target.  The
\* target is the render watcher of an instance (its id) or undefined (0).
PushTarget(w, t) == [w EXCEPT !.targetStack = Append(@, t), !.target = t]

\* The mutant of PopTarget: the stack is popped, Dep.target is left as it is.
PopTargetKeeps(w) ==
  [w EXCEPT !.targetStack = SubSeq(@, 1, Len(@) - 1)]

\* popTarget(): targetStack.pop(); Dep.target = targetStack[targetStack.length - 1]
PopTarget(w) ==
  [w EXCEPT !.targetStack = SubSeq(@, 1, Len(@) - 1),
            !.target = IF Len(w.targetStack) > 1
                       THEN w.targetStack[Len(w.targetStack) - 1] ELSE 0]

\* ----------------------------------------------------------------- callHook
\* callHook(vm, hook) starts (lifecycle.js:457-462): handlers = vm.$options[hook],
\* the loop bound j = handlers.length.  Ghosts of the frame: done, the
\* handlers called so far, and sent, the $emit calls made.
HookPush(s, v, hook) ==
  Append(s, [t |-> "hook", vm |-> v, hook |-> hook, i |-> 1, l |-> inst[v].nHooks,
             threw |-> 0, emitted |-> FALSE, done |-> <<>>, sent |-> 0])

\* The mutant of HookHandler: the handlers are called last one first.
HookHandlerBackwards(i, l) == l + 1 - i

\* handlers[i] of the loop for (let i = 0, j = handlers.length; i < j; i++)
\* (lifecycle.js:465-467), counted from 1: the i-th function registered.
HookHandler(i, l) == i

\* One pass of the loop (lifecycle.js:465-467): handlers[i] is called.
HookStep ==
  /\ TopIs("hook")
  /\ Top.i <= Top.l
  /\ LET h == HookHandler(Top.i, Top.l)
     IN  stack' = Append(Append(Below, [Top EXCEPT !.i = @ + 1, !.done = Append(@, h)]),
                         FnFrame(Top.vm, [k |-> "hook", f |-> Top.hook, id |-> h],
                                 Top.hook, FALSE))
  /\ UNCHANGED ncalls
  /\ UNCHANGED evVars
  /\ UNCHANGED lifeVars

\* if (vm._hasHookEvent) vm.$emit("hook:" + hook)  (lifecycle.js:474-476)
HookEmit ==
  /\ TopIs("hook")
  /\ Top.i > Top.l
  /\ ~Top.emitted
  /\ LET s1 == Append(Below, [Top EXCEPT !.emitted = TRUE,
                                         !.sent = IF _hasHookEvent[Top.vm] THEN @ + 1 ELSE @])
         s2 == IF _hasHookEvent[Top.vm] THEN EmitPush(s1, Top.vm, HookEvent(Top.hook)) ELSE s1
     IN  stack' = s2
  /\ UNCHANGED ncalls
  /\ UNCHANGED evVars
  /\ UNCHANGED lifeVars

\* callHook(vm, hook) called on its own, the phase having n hook functions
\* (lifecycle.js:457-462).
CallHookBegin(v, hook, n) ==
  /\ stack = <<>>
  /\ v <= nInst
  /\ Cardinality({k \in 1..Len(log[v]) : log[v][k] = hook}) < MaxPhase
  /\ stack' = <<[HookPush(<<>>, v, hook)[1] EXCEPT !.l = n]>>
  /\ world' = PushTarget(world, 0)
  /\ log' = [log EXCEPT ![v] = Append(@, hook)]
  /\ ncalls' = Called
  /\ UNCHANGED evVars
  /\ UNCHANGED <<nInst, inst, sticky, rlast>>

\* popTarget() and return (lifecycle.js:478-479)
HookEnd ==
  /\ TopIs("hook")
  /\ Top.i > Top.l
  /\ Top.emitted
  /\ stack' = IF Top.threw > 0 /\ Below # <<>>
                  /\ Top.hook \in {"beforeDestroy", "beforeMount"}
                  /\ stack[Len(stack) - 1].t \in {"destroy", "mount"}
               THEN [Below EXCEPT ![Len(stack) - 1].failed = @ \cup {Top.hook}]
               ELSE Below
  /\ world' = PopTarget(world)
  /\ ncalls' = Popped
  /\ UNCHANGED evVars
  /\ UNCHANGED <<nInst, inst, log, sticky, rlast>>

\* ----------------------------------------------------------------- $destroy
\* $destroy with the two destruction flags set in the opposite order.
DestroyStepsDestroyedFirst ==
  <<"beforeDestroy", "_isDestroyed", "detach", "teardown", "vmCount",
    "_isBeingDestroyed", "patch", "destroyed", "$off">>

\* The mutant of DestroySteps: the subscriptions are cleared before the
\* destroyed hook is called.
DestroyStepsOffEarly ==
  <<"beforeDestroy", "_isBeingDestroyed", "detach", "teardown", "vmCount",
    "_isDestroyed", "patch", "$off", "destroyed">>

\* The statements of Vue.prototype.$destroy after its guard, in the order of
\* the source (lifecycle.js:162-206).  The last two statements (208-218)
\* clear $el.__vue__ and $vnode.parent, which hold no state of this model.
DestroySteps ==
  <<"beforeDestroy", "_isBeingDestroyed", "detach", "teardown", "vmCount",
    "_isDestroyed", "patch", "destroyed", "$off">>

\* The mutant of DestroyDetaches: the instance is never taken out of
\* parent.$children.
DestroyDetachesNever(st, v) == FALSE

\* if (parent && !parent._isBeingDestroyed && !vm.$options.abstract)
\* (lifecycle.js:168-171)
DestroyDetaches(st, v) ==
  /\ st[v].parent # 0
  /\ ~st[st[v].parent]._isBeingDestroyed
  /\ ~st[v].abstract

\* remove(parent.$children, vm): the first occurrence is spliced out.
RemoveItem(s, x) ==
  IF \E k \in 1..Len(s) : s[k] = x
  THEN RemoveAt(s, CHOOSE k \in 1..Len(s) : s[k] = x /\ \A j \in 1..(k - 1) : s[j] # x)
  ELSE s

\* The mutant of Teardown: only the render watcher is torn down.
TeardownRenderOnly(rec) ==
  [rec EXCEPT !._watchers = [k \in 1..Len(@) |-> IF k = rec._watcher THEN FALSE ELSE @[k]]]

\* if (vm._watcher) vm._watcher.teardown(); then every vm._watchers[i].teardown()
\* (lifecycle.js:177-183).  teardown() leaves the watcher inactive.
Teardown(rec) ==
  [rec EXCEPT !._watchers = [k \in 1..Len(@) |-> FALSE]]

\* The subsequence of s of the elements in S.
RECURSIVE Filter(_, _)
Filter(s, S) ==
  IF s = <<>> THEN <<>>
  ELSE (IF s[1] \in S THEN <<s[1]>> ELSE <<>>) \o Filter(Tail(s), S)

Range(s) == {s[k] : k \in 1..Len(s)}

\* Whether the instance has a listener for the event e.
Listens(v, e) == _events[v][e].has /\ _events[v][e].cbs # <<>>

\* vm.$destroy() called by the running code: the guard (lifecycle.js:157-159).
\* Ghosts of the frame: done = the statements this call has executed, had =
\* a hook:destroyed listener was registered when the call began, nw = the
\* number of watchers the instance owned when this call tore them down,
\* failed = beforeDestroy once a beforeDestroy hook of this call threw.
DestroyPush(s, v) ==
  IF inst[v]._isBeingDestroyed THEN s
  ELSE Append(s, [t |-> "destroy", vm |-> v, pc |-> 1, done |-> <<>>,
                  had |-> Listens(v, "hook:destroyed"), nw |-> 0, failed |-> {}])

DestroyBegin(v) ==
  /\ CanCall
  /\ v <= nInst
  /\ stack' = DestroyPush(stack, v)
  /\ ncalls' = Called
  /\ lastOff' = "none"
  /\ UNCHANGED <<_events, _hasHookEvent, onceUid, calls, uncaught>>
  /\ UNCHANGED lifeVars

\* The next statement of $destroy.  vm.__patch__(vm._vnode, null) is the
\* patch collaborator: it calls $destroy on child components of the old tree,
\* here any of vm.$children, in order.
DestroyStep ==
  /\ TopIs("destroy")
  /\ Top.pc <= Len(DestroySteps)
  /\ LET v    == Top.vm
         stmt == DestroySteps[Top.pc]
         s1   == Append(Below,
                   [Top EXCEPT !.pc = @ + 1, !.done = Append(@, stmt),
                               !.nw = IF stmt = "teardown"
                                      THEN Len(inst[v]._watchers) ELSE @])
     IN  /\ log' = IF stmt \in {"beforeDestroy", "destroyed"}
                   THEN [log EXCEPT ![v] = Append(@, stmt)]
                   ELSE log
         /\ \E S \in (IF stmt = "patch" THEN SUBSET Range(inst[v].children) ELSE {{}}) :
              stack' =
                CASE stmt \in {"beforeDestroy", "destroyed"} -> HookPush(s1, v, stmt)
                  [] stmt = "patch" ->
                       Append(s1, [t |-> "patch", vm |-> v,
                                   todo |-> Filter(inst[v].children, S)])
                  [] stmt = "$off" -> Detach(s1, v, _events[v], EventNames)
                  [] OTHER -> s1
         /\ inst' =
              CASE stmt = "_isBeingDestroyed" -> [inst EXCEPT ![v]._isBeingDestroyed = TRUE]
                [] stmt = "detach" ->
                     IF DestroyDetaches(inst, v)
                     THEN [inst EXCEPT ![inst[v].parent].children = RemoveItem(@, v)]
                     ELSE inst
                [] stmt = "teardown" -> [inst EXCEPT ![v] = Teardown(@)]
                [] stmt = "vmCount" -> [inst EXCEPT ![v].vmCount = @ - 1]
                [] stmt = "_isDestroyed" -> [inst EXCEPT ![v]._isDestroyed = TRUE]
                [] OTHER -> inst
         /\ _events' = IF stmt = "$off" THEN [_events EXCEPT ![v] = OffAll(@)] ELSE _events
         /\ world' = IF stmt \in {"beforeDestroy", "destroyed"}
                     THEN PushTarget(world, 0)
                     ELSE IF stmt = "teardown" /\ inst[v]._watcher # 0
                     THEN [world EXCEPT !.cancelled = @ \cup {v}]
                     ELSE world
  /\ UNCHANGED <<nInst, sticky, ncalls, _hasHookEvent, onceUid, calls, uncaught, lastOff>>
  /\ UNCHANGED rlast

\* $destroy returns.
DestroyEnd ==
  /\ TopIs("destroy")
  /\ Top.pc > Len(DestroySteps)
  /\ stack' = Below
  /\ ncalls' = Popped
  /\ UNCHANGED evVars
  /\ UNCHANGED lifeVars

\* The patch collaborator calls $destroy on the next child component.
PatchStep ==
  /\ TopIs("patch")
  /\ Top.todo # <<>>
  /\ stack' = DestroyPush(Append(Below, [Top EXCEPT !.todo = Tail(@)]), Head(Top.todo))
  /\ UNCHANGED ncalls
  /\ UNCHANGED evVars
  /\ UNCHANGED lifeVars

\* The patch collaborator returns.
PatchEnd ==
  /\ TopIs("patch")
  /\ Top.todo = <<>>
  /\ stack' = Below
  /\ ncalls' = Popped
  /\ UNCHANGED evVars
  /\ UNCHANGED lifeVars

\* ------------------------------------------------- activation, deactivation
\* The mutant of IsInInactiveTree: only $parent is looked at.
IsInInactiveTreeParent(st, v) ==
  st[v].parent # 0 /\ st[st[v].parent]._inactive = "true"

\* isInInactiveTree(vm) (lifecycle.js:404-409): some proper ancestor has a
\* truthy _inactive.
RECURSIVE IsInInactiveTree(_, _)
IsInInactiveTree(st, v) ==
  IF st[v].parent = 0 THEN FALSE
  ELSE IF st[st[v].parent]._inactive = "true" THEN TRUE
  ELSE IsInInactiveTree(st, st[v].parent)

\* The mutant of ActSkipsDirect: an indirect activation never skips.
ActSkipsNever(rec) == FALSE

\* else if (vm._directInactive) return  (lifecycle.js:417-419)
ActSkipsDirect(rec) == rec._directInactive

\* activateChildComponent(vm, direct) (lifecycle.js:411-427); the hook
\* functions of `activated` return without calling back into the instance.
RECURSIVE Act(_, _, _), ActAll(_, _)
Act(st, v, direct) ==
  LET st1 == IF direct THEN [st EXCEPT ![v]._directInactive = FALSE] ELSE st
  IN  IF direct /\ IsInInactiveTree(st1, v) THEN st1
      ELSE IF ~direct /\ ActSkipsDirect(st1[v]) THEN st1
      ELSE IF st1[v]._inactive \in {"true", "null"}
           THEN ActAll([st1 EXCEPT ![v]._inactive = "false"], st1[v].children)
           ELSE st1

\* for (i = 0; i < vm.$children.length; i++) activateChildComponent(vm.$children[i])
ActAll(st, kids) ==
  IF kids = <<>> THEN st ELSE ActAll(Act(st, Head(kids), FALSE), Tail(kids))

\* The mutant of DeactNeeded: an inactive instance is deactivated again.
DeactNeededAlways(rec) == TRUE

\* if (!vm._inactive)  (lifecycle.js:436): _inactive is null or false.
DeactNeeded(rec) == rec._inactive # "true"

\* deactivateChildComponent(vm, direct) (lifecycle.js:429-443)
RECURSIVE Deact(_, _, _), DeactAll(_, _)
Deact(st, v, direct) ==
  LET st1 == IF direct THEN [st EXCEPT ![v]._directInactive = TRUE] ELSE st
  IN  IF direct /\ IsInInactiveTree(st1, v) THEN st1
      ELSE IF DeactNeeded(st1[v])
           THEN DeactAll([st1 EXCEPT ![v]._inactive = "true"], st1[v].children)
           ELSE st1

DeactAll(st, kids) ==
  IF kids = <<>> THEN st ELSE DeactAll(Deact(st, Head(kids), FALSE), Tail(kids))

\* The instances on which activateChildComponent(v, direct) calls
\* callHook(vm, "activated"), in the order of the calls: those of the
\* children's calls in the loop (lifecycle.js:422-424), then v (425).
RECURSIVE ActFires(_, _, _), ActAllFires(_, _)
ActFires(st, v, direct) ==
  LET st1 == IF direct THEN [st EXCEPT ![v]._directInactive = FALSE] ELSE st
  IN  IF direct /\ IsInInactiveTree(st1, v) THEN <<>>
      ELSE IF ~direct /\ ActSkipsDirect(st1[v]) THEN <<>>
      ELSE IF st1[v]._inactive \in {"true", "null"}
           THEN ActAllFires([st1 EXCEPT ![v]._inactive = "false"], st1[v].children) \o <<v>>
           ELSE <<>>

ActAllFires(st, kids) ==
  IF kids = <<>> THEN <<>>
  ELSE ActFires(st, Head(kids), FALSE) \o ActAllFires(Act(st, Head(kids), FALSE), Tail(kids))

\* The same for deactivateChildComponent(v, direct) and
\* callHook(vm, "deactivated") (lifecycle.js:438-441).
RECURSIVE DeactFires(_, _, _), DeactAllFires(_, _)
DeactFires(st, v, direct) ==
  LET st1 == IF direct THEN [st EXCEPT ![v]._directInactive = TRUE] ELSE st
  IN  IF direct /\ IsInInactiveTree(st1, v) THEN <<>>
      ELSE IF DeactNeeded(st1[v])
           THEN DeactAllFires([st1 EXCEPT ![v]._inactive = "true"], st1[v].children) \o <<v>>
           ELSE <<>>

DeactAllFires(st, kids) ==
  IF kids = <<>> THEN <<>>
  ELSE DeactFires(st, Head(kids), FALSE) \o DeactAllFires(Deact(st, Head(kids), FALSE), Tail(kids))

\* callHook(vm, "activated") is called in the block that sets
\* vm._inactive = false (lifecycle.js:421-426): the hook fired on x in a
\* call that took st to st2 exactly when that assignment changed x.
ActivatedFired(st, st2, x) == st[x]._inactive # "false" /\ st2[x]._inactive = "false"

\* The proper ancestors of v along $parent.
RECURSIVE Ancestors(_, _)
Ancestors(st, v) ==
  IF st[v].parent = 0 THEN {} ELSE {st[v].parent} \cup Ancestors(st, st[v].parent)

\* Ghost record of one instance: n = 1 after its direct deactivation, 2 once
\* an ancestor (a) was then deactivated directly, 3 once that ancestor was
\* then activated directly; took = the direct deactivation left the instance
\* with _inactive === true; act = its activated hook fired since; last and
\* prev = the last of the hooks activated and deactivated that fired on the
\* instance, and the one before it.
NoSticky == [n |-> 0, a |-> 0, act |-> FALSE, took |-> FALSE,
             last |-> "none", prev |-> "none"]

\* The ghosts last and prev after the hook has fired on the instances of
\* the sequence fired, one after the other.
RECURSIVE Hooked(_, _, _)
Hooked(sk, fired, hook) ==
  IF fired = <<>> THEN sk
  ELSE Hooked([sk EXCEPT ![Head(fired)].prev = sk[Head(fired)].last,
                         ![Head(fired)].last = hook],
              Tail(fired), hook)

\* Ghost of the last activateChildComponent or deactivateChildComponent call
\* made by the host: tick changes with every call, op and vm are the call,
\* direct is vm._directInactive before it, fired the instances on which it
\* called the hook, in order.
NoAct == [tick |-> FALSE, op |-> "none", vm |-> 0, direct |-> FALSE, fired |-> <<>>]

\* activateChildComponent(v, true), as the keep-alive host calls it.
Activate(v) ==
  /\ stack = <<>>
  /\ v <= nInst
  /\ inst' = Act(inst, v, TRUE)
  /\ sticky' = Hooked([x \in Ids |->
       IF x = v THEN [NoSticky EXCEPT !.last = sticky[x].last, !.prev = sticky[x].prev]
       ELSE [sticky[x] EXCEPT
               !.n = IF @ = 2 /\ sticky[x].a = v THEN 3 ELSE @,
               !.act = @ \/ (sticky[x].n >= 1 /\ ActivatedFired(inst, inst', x))]],
       ActFires(inst, v, TRUE), "activated")
  /\ world' = [world EXCEPT !.act = [tick |-> ~@.tick, op |-> "activate", vm |-> v,
                                     direct |-> inst[v]._directInactive,
                                     fired |-> ActFires(inst, v, TRUE)]]
  /\ UNCHANGED <<nInst, log, stack, ncalls, rlast>>
  /\ UNCHANGED evVars

\* deactivateChildComponent(v, true)
Deactivate(v) ==
  /\ stack = <<>>
  /\ v <= nInst
  /\ inst' = Deact(inst, v, TRUE)
  /\ sticky' = Hooked([x \in Ids |->
       IF x = v
       THEN [sticky[x] EXCEPT !.n = 1, !.a = 0, !.act = FALSE,
                              !.took = inst'[v]._inactive = "true"]
       ELSE IF sticky[x].n \in {1, 2} /\ x <= nInst /\ v \in Ancestors(inst, x)
            THEN [sticky[x] EXCEPT !.n = 2, !.a = v]
            ELSE sticky[x]],
       DeactFires(inst, v, TRUE), "deactivated")
  /\ world' = [world EXCEPT !.act = [tick |-> ~@.tick, op |-> "deactivate", vm |-> v,
                                     direct |-> inst[v]._directInactive,
                                     fired |-> DeactFires(inst, v, TRUE)]]
  /\ UNCHANGED <<nInst, log, stack, ncalls, rlast>>
  /\ UNCHANGED evVars

\* ------------------------------------------------------- _render and _update
\* process.env.NODE_ENV === "production", and the numbers of VNode objects
\* and of host elements made so far; activeInstance (lifecycle.js:22, 0 for
\* null); Dep.target and targetStack; the scheduler: queue, has, waiting,
\* flushing, index (the place in the queue of the watcher being run), and
\* order, the render watchers in the order of their creation, nflush, the
\* flushes begun.  Ghosts:
\* resolved, the last call of resolveInject; pend, req, ran, late, flushed:
\* per instance the update requests since the last flush began, those the
\* running or last flush began with, the runs of the render computation in
\* that flush and the requests queued while it ran, and whether the last
\* flush has drained its queue; cancelled, the instances whose render watcher
\* a $destroy call has torn down; act, the last activation or deactivation.
NoWorld ==
  [production |-> FALSE, nVnode |-> 0, nElm |-> 0,
   resolved |-> [vm |-> 0, inject |-> NoInject, result |-> NoResult],
   activeInstance |-> 0, target |-> 0, targetStack |-> <<>>,
   queue |-> <<>>, has |-> {}, waiting |-> FALSE, flushing |-> FALSE,
   index |-> 0, order |-> <<>>, nflush |-> 0,
   pend |-> [v \in Ids |-> 0], req |-> [v \in Ids |-> 0],
   ran |-> [v \in Ids |-> 0], late |-> [v \in Ids |-> 0], flushed |-> FALSE,
   cancelled |-> {}, act |-> NoAct]

\* Ghost of the last vm._render() call: ok = there was one, threw = the
\* render function threw, reported = calls of handleError, prev and prevEl =
\* vm._vnode and vm.$el before the call, ret = the value returned, updated =
\* the _update that takes ret has run.
NoRender ==
  [ok |-> FALSE, vm |-> 0, threw |-> FALSE, reported |-> 0, prev |-> Null,
   prevEl |-> 0, ret |-> Null, updated |-> FALSE]

\* What a render function, or a renderError function, may do.
RenderOutcomes == {"vnode", "array1", "arrayN", "other", "throw"}

\* The value a render function hands back; id is the identity of the VNode
\* it creates.
Returned(o, id) ==
  CASE o = "vnode"  -> VNodeOf(id, FALSE)
    [] o = "array1" -> ArrayOf(1, id)
    [] o = "arrayN" -> ArrayOf(2, id)
    [] OTHER        -> NotVNode

\* handleError(e, vm, info) reports the error to the error sink and returns.
HandleErrorThrows == FALSE

\* The mutant of RenderFallback: the previous tree is not reused.
RenderFallbackBlank(rec) == Null

\* vnode = vm._vnode  (render.js:169, 172)
RenderFallback(rec) == rec._vnode

\* Vue.prototype._render (render.js:125-198) on the instance fields rec: out
\* is what the render function does, rerr what renderError does when it is
\* called, id the identity of the next VNode object.
Render(rec, w, out, rerr, id) ==
  LET useRE == ~w.production /\ rec.renderError
      v1 == IF out # "throw" THEN Returned(out, id)
            ELSE IF useRE
                 THEN (IF rerr # "throw" THEN Returned(rerr, id) ELSE RenderFallback(rec))
                 ELSE RenderFallback(rec)
      \* if (Array.isArray(vnode) && vnode.length === 1) vnode = vnode[0]
      v2 == IF v1.k = "array" /\ v1.len = 1 THEN VNodeOf(v1.id, FALSE) ELSE v1
      \* if (!(vnode instanceof VNode)) vnode = createEmptyVNode()
      v3 == IF v2.k # "vnode" THEN VNodeOf(id, TRUE) ELSE v2
  IN  [ret |-> [v3 EXCEPT !.parent = rec._parentVnode.id],
       reported |-> (IF out = "throw" THEN 1 ELSE 0)
                    + (IF out = "throw" /\ useRE /\ rerr = "throw" THEN 1 ELSE 0),
       propagated |-> out = "throw" /\ HandleErrorThrows]

\* vm.__patch__(prevVnode, vnode) (lifecycle.js:109, 113), the patch
\* collaborator: it returns the host handle of the new tree and records it
\* as vnode.elm.  For the tree object it was given before it returns the
\* handle that tree has; for another tree it reuses the old handle or makes
\* a new element (fresh).
Patch(old, new, reuse, fresh) ==
  IF old.k = "vnode" /\ old.id = new.id THEN new.elm
  ELSE IF old.k = "vnode" /\ reuse THEN old.elm
  ELSE fresh

\* updateComponent (lifecycle.js:282-288) evaluates vm._render(): the
\* argument of the _update call that follows.
RenderCall(v, out, rerr) ==
  /\ stack = <<>>
  /\ v <= nInst
  /\ world.nVnode < MaxRender
  /\ LET r == Render(inst[v], world, out, rerr, world.nVnode + 1)
     IN  /\ inst' = [inst EXCEPT ![v].vnode = inst[v]._parentVnode,
                                 ![v]._vnode = IF r.ret.id = @.id /\ @.k = "vnode"
                                               THEN r.ret ELSE @]
         /\ world' = [world EXCEPT !.nVnode = IF r.ret.id > @ THEN r.ret.id ELSE @]
         /\ rlast' = [ok |-> TRUE, vm |-> v, threw |-> out = "throw",
                      reported |-> r.reported, prev |-> inst[v]._vnode,
                      prevEl |-> inst[v].el, ret |-> r.ret, updated |-> FALSE]
         /\ IF r.propagated
            THEN /\ uncaught' = TRUE
                 /\ stack' = stack
            ELSE /\ stack' = Append(stack, [t |-> "update", vm |-> v, vnode |-> r.ret])
                 /\ UNCHANGED uncaught
  /\ UNCHANGED <<nInst, log, sticky, ncalls>>
  /\ UNCHANGED <<_events, _hasHookEvent, onceUid, calls, lastOff>>

\* Vue.prototype._update(vnode, hydrating) (lifecycle.js:95-142).
UpdateCall(reuse) ==
  /\ TopIs("update")
  /\ LET v     == Top.vm
         prev  == inst[v]._vnode
         fresh == world.nElm + 1
         elm   == IF prev.k # "vnode" THEN fresh
                  ELSE Patch(prev, Top.vnode, reuse, fresh)
         par   == inst[v].parent
         hoc   == /\ inst[v].vnode.k = "vnode"
                  /\ par # 0
                  /\ inst[par]._vnode.k = "vnode"
                  /\ inst[v].vnode.id = inst[par]._vnode.id
     IN  /\ inst' = [x \in Ids |->
                       IF x = v THEN [inst[v] EXCEPT !._vnode = [Top.vnode EXCEPT !.elm = elm],
                                                     !.el = elm]
                       ELSE IF hoc /\ x = par THEN [inst[x] EXCEPT !.el = elm]
                       ELSE inst[x]]
         /\ world' = [world EXCEPT !.nElm = IF elm = fresh THEN fresh ELSE @]
         /\ rlast' = [rlast EXCEPT !.updated = TRUE]
  /\ stack' = Below
  /\ ncalls' = Popped
  /\ UNCHANGED <<nInst, log, sticky>>
  /\ UNCHANGED evVars

\* ------------------------------------------------------------ the scheduler
\* queueWatcher(watcher) for the render watcher of v: nothing when it is
\* already queued (has[id]); else it is put in the queue, during a flush at
\* its place by creation id after the entry being run, and a flush is
\* scheduled when none is.  order is the render watchers by creation id.
Before(order, a, b) ==
  \E i, j \in 1..Len(order) : i < j /\ order[i] = a /\ order[j] = b

\* The index after which the watcher of v is spliced in during a flush.
RECURSIVE SpliceAt(_, _, _, _)
SpliceAt(w, q, v, i) ==
  IF i > w.index /\ Before(w.order, v, q[i]) THEN SpliceAt(w, q, v, i - 1) ELSE i

\* The mutant of QueueWatcher: a watcher already queued is queued again.
QueueWatcherTwice(w, v) ==
  [w EXCEPT !.has = @ \cup {v}, !.queue = Append(@, v), !.waiting = TRUE]

QueueWatcher(w, v) ==
  IF v \in w.has THEN w
  ELSE LET q == w.queue
           i == SpliceAt(w, q, v, Len(q))
           w1 == [w EXCEPT !.has = @ \cup {v},
                           !.queue = IF ~w.flushing THEN Append(q, v)
                                     ELSE SubSeq(q, 1, i) \o <<v>> \o SubSeq(q, i + 1, Len(q)),
                           !.waiting = TRUE]
       IN  w1

\* Ghosts of the scheduler: pend = the update requests made for the instance
\* since the last flush began (0, 1, 2 for more), late = those made while a
\* flush runs.
Requested(w, v) ==
  IF w.flushing THEN [w EXCEPT !.late[v] = @ + (IF v \in w.has THEN 0 ELSE 1)]
  ELSE [w EXCEPT !.pend[v] = Sat(@ + 1)]

\* watcher.update() of the render watcher: queueWatcher(this)
WatcherUpdate(w, v) == QueueWatcher(Requested(w, v), v)

\* The mutant of WatcherActive: a watcher torn down still counts as active.
WatcherActiveEver(rec) == rec._watcher # 0

\* Whether the render watcher of the instance is active (not torn down).
WatcherActive(rec) == rec._watcher # 0 /\ rec._watchers[rec._watcher]

\* vm.$forceUpdate() called by the running code (lifecycle.js:145-150).
ForceUpdate(v) ==
  /\ CanCall
  /\ v <= nInst
  /\ inst[v]._watcher # 0
  /\ world' = WatcherUpdate(world, v)
  /\ ncalls' = Called
  /\ lastOff' = "none"
  /\ UNCHANGED <<nInst, inst, log, sticky, stack, rlast>>
  /\ UNCHANGED <<_events, _hasHookEvent, onceUid, calls, uncaught>>

\* A write, by the running code, to a cell the render function of v read:
\* dep.notify() calls update() on the subscribers, and the render watcher is
\* one from its first run until it is torn down.
Write(v) ==
  /\ CanCall
  /\ v <= nInst
  /\ WatcherActive(inst[v])
  /\ inst[v]._vnode.k = "vnode"
  /\ world' = WatcherUpdate(world, v)
  /\ ncalls' = Called
  /\ lastOff' = "none"
  /\ UNCHANGED <<nInst, inst, log, sticky, stack, rlast>>
  /\ UNCHANGED <<_events, _hasHookEvent, onceUid, calls, uncaught>>

\* ------------------------------------------------------------ mountComponent
\* The mutant of MountSteps: mounted is handled before the watcher is made.
MountStepsMountedFirst == <<"beforeMount", "mounted", "watcher">>

\* The statements of mountComponent after vm.$el = el, in the order of the
\* source: callHook(vm, "beforeMount") (lifecycle.js:258), new Watcher(...)
\* (298-310), the mounted block (316-319).  A missing render option
\* (234-256) is a render function that returns the empty VNode.
MountSteps == <<"beforeMount", "watcher", "mounted">>

\* Ghost of the frame: failed = beforeMount once a beforeMount hook of this
\* call threw.
MountPush(s, v) == Append(s, [t |-> "mount", vm |-> v, pc |-> 1, failed |-> {}])

\* vm.$mount(el) called by the outermost caller on an instance that has not
\* been mounted: mountComponent(vm, el), vm.$el = el (lifecycle.js:222-228).
MountBegin(v, el) ==
  /\ stack = <<>>
  /\ v <= nInst
  /\ inst[v]._watcher = 0
  /\ stack' = MountPush(stack, v)
  /\ inst' = [inst EXCEPT ![v].el = el]
  /\ ncalls' = Called
  /\ lastOff' = "none"
  /\ UNCHANGED <<nInst, log, sticky>>
  /\ UNCHANGED renderVars
  /\ UNCHANGED <<_events, _hasHookEvent, onceUid, calls, uncaught>>

\* The next statement of mountComponent.  new Watcher(vm, updateComponent,
\* noop, { before }, true) registers the watcher as vm._watcher and in
\* vm._watchers and, not being lazy, calls this.get().
MountStep ==
  /\ TopIs("mount")
  /\ Top.pc <= Len(MountSteps)
  /\ LET v    == Top.vm
         stmt == MountSteps[Top.pc]
         s1   == Append(Below, [Top EXCEPT !.pc = @ + 1])
         root == inst[v].vnode.k # "vnode"
     IN  CASE stmt = "beforeMount" ->
                /\ stack' = HookPush(s1, v, stmt)
                /\ world' = PushTarget(world, 0)
                /\ log' = [log EXCEPT ![v] = Append(@, stmt)]
                /\ UNCHANGED inst
            [] stmt = "watcher" ->
                /\ inst' = [inst EXCEPT ![v]._watchers = Append(@, TRUE),
                                        ![v]._watcher = Len(inst[v]._watchers) + 1]
                /\ world' = [world EXCEPT !.order = Append(@, v)]
                /\ stack' = Append(s1, [t |-> "get", vm |-> v, pc |-> 1])
                /\ UNCHANGED log
            [] stmt = "mounted" ->
                /\ inst' = IF root THEN [inst EXCEPT ![v]._isMounted = TRUE] ELSE inst
                /\ stack' = IF root THEN HookPush(s1, v, stmt) ELSE s1
                /\ world' = IF root THEN PushTarget(world, 0) ELSE world
                /\ log' = IF root THEN [log EXCEPT ![v] = Append(@, stmt)] ELSE log
  /\ UNCHANGED <<nInst, sticky, ncalls, rlast>>
  /\ UNCHANGED evVars

\* return vm  (lifecycle.js:320)
MountEnd ==
  /\ TopIs("mount")
  /\ Top.pc > Len(MountSteps)
  /\ stack' = Below
  /\ ncalls' = Popped
  /\ UNCHANGED evVars
  /\ UNCHANGED lifeVars

\* ------------------------------------------------------------- Watcher.get
\* watcher.get() of a render watcher: pushTarget(this), then the getter,
\* updateComponent (lifecycle.js:282-288): vm._render() is evaluated, then
\* vm._update is called with its value.
WatcherGet(out, rerr) ==
  /\ TopIs("get")
  /\ Top.pc = 1
  /\ LET v == Top.vm
         r == Render(inst[v], world, out, rerr, world.nVnode + 1)
     IN  /\ inst' = [inst EXCEPT ![v].vnode = inst[v]._parentVnode,
                                 ![v]._vnode = IF r.ret.id = @.id /\ @.k = "vnode"
                                               THEN r.ret ELSE @]
         /\ world' = [PushTarget(world, v)
                        EXCEPT !.nVnode = IF r.ret.id > @ THEN r.ret.id ELSE @,
                               !.ran[v] = IF world.flushing THEN @ + 1 ELSE @]
         /\ stack' = Append(Append(Below, [Top EXCEPT !.pc = 2]),
                            [t |-> "_update", vm |-> v, vnode |-> r.ret, pc |-> 1,
                             prevVnode |-> Null, restore |-> 0, elm |-> 0])
  /\ UNCHANGED <<nInst, log, sticky, ncalls, rlast>>
  /\ UNCHANGED evVars

\* finally { popTarget(); this.cleanupDeps() } and return
WatcherGetEnd ==
  /\ TopIs("get")
  /\ Top.pc = 2
  /\ world' = PopTarget(world)
  /\ stack' = Below
  /\ UNCHANGED <<nInst, inst, log, sticky, ncalls, rlast>>
  /\ UNCHANGED evVars

\* ------------------------------------------------------------------ _update
\* Vue.prototype._update up to the call of vm.__patch__ (lifecycle.js:96-117):
\* prevVnode and the restore closure of setActiveInstance(vm) (33-39) are
\* kept in the frame, vm._vnode = vnode.  The patch frame: old and new are
\* the trees, pc its phase, made = it created a child component, ins = the
\* components whose insert hook it has to call.
UpdateBegin ==
  /\ TopIs("_update")
  /\ Top.pc = 1
  /\ LET v == Top.vm
     IN  /\ stack' = Append(Append(Below, [Top EXCEPT !.pc = 2,
                                                      !.prevVnode = inst[v]._vnode,
                                                      !.restore = world.activeInstance]),
                            [t |-> "__patch__", vm |-> v, old |-> inst[v]._vnode,
                             new |-> Top.vnode, pc |-> 1, made |-> FALSE, ins |-> <<>>])
         /\ world' = [world EXCEPT !.activeInstance = v]
         /\ inst' = [inst EXCEPT ![v]._vnode = Top.vnode]
  /\ UNCHANGED <<nInst, log, sticky, ncalls, rlast>>
  /\ UNCHANGED evVars

\* The mutant of UpdateWrapper: $el is not handed to the parent.
UpdateWrapperNever(st, v) == FALSE

\* if (vm.$vnode && vm.$parent && vm.$vnode === vm.$parent._vnode)
\* (lifecycle.js:137)
UpdateWrapper(st, v) ==
  /\ st[v].vnode.k = "vnode"
  /\ st[v].parent # 0
  /\ st[st[v].parent]._vnode.k = "vnode"
  /\ st[v].vnode.id = st[st[v].parent]._vnode.id

\* The rest of _update once vm.__patch__ has returned (lifecycle.js:113-139):
\* vm.$el = the handle returned, restoreActiveInstance(), and the parent's
\* $el when the parent is a wrapper of this instance.
UpdateEnd ==
  /\ TopIs("_update")
  /\ Top.pc = 2
  /\ LET v   == Top.vm
         par == inst[v].parent
         hoc == UpdateWrapper(inst, v)
     IN  /\ inst' = [x \in Ids |->
                       IF x = v THEN [inst[v] EXCEPT !._vnode.elm = Top.elm, !.el = Top.elm]
                       ELSE IF hoc /\ x = par THEN [inst[x] EXCEPT !.el = Top.elm]
                       ELSE inst[x]]
         /\ world' = [world EXCEPT !.activeInstance = Top.restore]
  /\ stack' = Below
  /\ UNCHANGED <<nInst, log, sticky, ncalls, rlast>>
  /\ UNCHANGED evVars

\* ------------------------------------------------- the patch collaborator
\* The child components of v that its rendered tree holds: those created by
\* a patch of v (they have a placeholder node) and not detached since.
TreeKids(st, v) ==
  Filter(st[v].children, {c \in Ids : st[c]._parentVnode.k = "vnode"})

\* Whether child c is the root of the tree of its parent: its placeholder
\* node is the tree `tree`.
IsRootOf(st, c, tree) == st[c].vnode.k = "vnode" /\ st[c].vnode.id = tree.id

\* vm.__patch__ meets a new component placeholder in the tree: it creates the
\* child, createComponentInstanceForVnode(vnode, activeInstance), with
\* options.parent = activeInstance and _parentVnode = the placeholder, and
\* mounts it, child.$mount(undefined).  The placeholder is the root of the
\* tree (hoc: the instance is a wrapper) or a new node inside it.
PatchCreateChild(hoc) ==
  /\ TopIs("__patch__")
  /\ Top.pc = 1
  /\ ~Top.made
  /\ nInst < MaxDepth
  /\ TreeKids(inst, Top.vm) = <<>>
  /\ LET c  == nInst + 1
         pv == IF hoc THEN Top.new ELSE VNodeOf(world.nVnode + 1, FALSE)
         st == InitLifecycle(inst, c, world.activeInstance, FALSE)
     IN  /\ nInst' = c
         /\ inst' = [st EXCEPT ![c]._parentVnode = pv]
         /\ _events' = [_events EXCEPT ![c] = NoEvents]
         /\ _hasHookEvent' = [_hasHookEvent EXCEPT ![c] = FALSE]
         /\ world' = [world EXCEPT !.nVnode = IF hoc THEN @ ELSE @ + 1]
         /\ stack' = MountPush(Append(Below, [Top EXCEPT !.made = TRUE]), c)
  /\ UNCHANGED <<log, sticky, ncalls, rlast, onceUid, calls, uncaught, lastOff>>

\* vm.__patch__ meets, in the new tree, the placeholder of a component the
\* old tree holds: prepatch calls updateChildComponent (lifecycle.js:323-402)
\* with the new placeholder; force is needsForceUpdate (351-355, 394-397).
PatchKeepChild(force) ==
  /\ TopIs("__patch__")
  /\ Top.pc = 1
  /\ ~Top.made
  /\ Top.old.k = "vnode"
  /\ TreeKids(inst, Top.vm) # <<>>
  /\ LET c   == Head(TreeKids(inst, Top.vm))
         hoc == IsRootOf(inst, c, Top.old)
         pv  == IF hoc THEN Top.new ELSE VNodeOf(world.nVnode + 1, FALSE)
     IN  /\ inst' = [inst EXCEPT ![c]._parentVnode = pv,
                                 ![c].vnode = pv,
                                 ![c]._vnode = IF @.k = "vnode"
                                               THEN [@ EXCEPT !.parent = pv.id] ELSE @]
         /\ world' = LET w1 == [world EXCEPT !.nVnode = IF hoc THEN @ ELSE @ + 1]
                     IN  IF force /\ inst[c]._watcher # 0 THEN WatcherUpdate(w1, c) ELSE w1
         /\ stack' = Append(Below, [Top EXCEPT !.made = TRUE])
  /\ UNCHANGED <<nInst, log, sticky, ncalls, rlast>>
  /\ UNCHANGED evVars

\* vm.__patch__ finds that the new tree no longer holds a component of the
\* old tree: the destroy hook of its placeholder calls $destroy on it.
PatchDropChild ==
  /\ TopIs("__patch__")
  /\ Top.pc = 1
  /\ ~Top.made
  /\ Top.old.k = "vnode"
  /\ TreeKids(inst, Top.vm) # <<>>
  /\ stack' = DestroyPush(Append(Below, [Top EXCEPT !.made = TRUE]),
                          Head(TreeKids(inst, Top.vm)))
  /\ UNCHANGED ncalls
  /\ UNCHANGED evVars
  /\ UNCHANGED lifeVars

\* vm.__patch__ throws.  The exception leaves every call in progress: each
\* Watcher.get on the way runs its finally block (popTarget), _update has no
\* handler (lifecycle.js:109-120), and the scheduler, when a flush is what
\* runs, is left as it is.
GetFrames == {k \in 1..Len(stack) : stack[k].t = "get"}

PatchThrow ==
  /\ TopIs("__patch__")
  /\ Top.pc = 1
  /\ stack' = <<>>
  /\ ncalls' = 0
  /\ uncaught' = TRUE
  /\ world' = [world EXCEPT
                 !.targetStack = SubSeq(@, 1, Len(@) - Cardinality(GetFrames)),
                 !.target = IF Len(world.targetStack) > Cardinality(GetFrames)
                            THEN world.targetStack[Len(world.targetStack) - Cardinality(GetFrames)]
                            ELSE 0]
  /\ UNCHANGED <<nInst, inst, log, sticky, rlast>>
  /\ UNCHANGED <<_events, _hasHookEvent, onceUid, calls, lastOff>>

\* vm.__patch__ has built the tree: the handle it will return is the $el of
\* the component at the root, or the element Patch gives.  The components it
\* has to signal as inserted are handed to the patch of the parent when this
\* is the first patch of an instance with a placeholder (invokeInsertHook),
\* with the instance itself after them.
PatchDone(reuse) ==
  /\ TopIs("__patch__")
  /\ Top.pc = 1
  /\ LET v     == Top.vm
         kids  == TreeKids(inst, v)
         fresh == world.nElm + 1
         elm   == IF kids # <<>> /\ IsRootOf(inst, Head(kids), Top.new)
                  THEN inst[Head(kids)].el
                  ELSE IF Top.old.k # "vnode" THEN fresh
                  ELSE Patch(Top.old, Top.new, reuse, fresh)
         defer == Top.old.k # "vnode" /\ inst[v].vnode.k = "vnode" /\ Len(stack) > 4
         s1    == [stack EXCEPT ![Len(stack)] = [Top EXCEPT !.pc = 2,
                                                   !.ins = IF defer THEN <<>> ELSE @],
                                 ![Len(stack) - 1] = [@ EXCEPT !.elm = elm]]
     IN  /\ stack' = IF defer
                     THEN [s1 EXCEPT ![Len(stack) - 4] =
                                        [@ EXCEPT !.ins = @ \o Top.ins \o <<v>>]]
                     ELSE s1
         /\ world' = [world EXCEPT !.nElm = IF elm = fresh THEN fresh ELSE @]
  /\ UNCHANGED <<nInst, inst, log, sticky, ncalls, rlast>>
  /\ UNCHANGED evVars

\* The insert hook of a component placeholder: if (!componentInstance._isMounted)
\* { componentInstance._isMounted = true; callHook(componentInstance, "mounted") }
PatchInsert ==
  /\ TopIs("__patch__")
  /\ Top.pc = 2
  /\ Top.ins # <<>>
  /\ LET c  == Head(Top.ins)
         s1 == Append(Below, [Top EXCEPT !.ins = Tail(@)])
         go == ~inst[c]._isMounted
     IN  /\ inst' = IF go THEN [inst EXCEPT ![c]._isMounted = TRUE] ELSE inst
         /\ stack' = IF go THEN HookPush(s1, c, "mounted") ELSE s1
         /\ world' = IF go THEN PushTarget(world, 0) ELSE world
         /\ log' = IF go THEN [log EXCEPT ![c] = Append(@, "mounted")] ELSE log
  /\ UNCHANGED <<nInst, sticky, ncalls, rlast>>
  /\ UNCHANGED evVars

\* vm.__patch__ returns.
PatchReturn ==
  /\ TopIs("__patch__")
  /\ Top.pc = 2
  /\ Top.ins = <<>>
  /\ stack' = Below
  /\ UNCHANGED ncalls
  /\ UNCHANGED evVars
  /\ UNCHANGED lifeVars

\* -------------------------------------------------------------- the flush
\* queue.sort((a, b) => a.id - b.id): the entries in the order of creation
\* of their watchers.
RECURSIVE SortQueue(_, _)
SortQueue(order, q) ==
  IF order = <<>> THEN <<>>
  ELSE Filter(q, {Head(order)}) \o SortQueue(Tail(order), q)

\* flushSchedulerQueue, run by nextTick when the call stack is empty:
\* flushing = true, the queue is sorted by watcher id.
FlushBegin ==
  /\ stack = <<>>
  /\ world.waiting
  /\ ~world.flushing
  /\ world.nflush < MaxFlush
  /\ world' = [world EXCEPT !.flushing = TRUE,
                            !.nflush = @ + 1,
                            !.queue = SortQueue(world.order, world.queue),
                            !.index = 0,
                            !.flushed = FALSE,
                            !.req = world.pend,
                            !.pend = [v \in Ids |-> 0],
                            !.ran = [v \in Ids |-> 0],
                            !.late = [v \in Ids |-> 0]]
  /\ stack' = <<[t |-> "flush", pc |-> "before", todo |-> <<>>]>>
  /\ ncalls' = 0
  /\ UNCHANGED <<nInst, inst, log, sticky, rlast>>
  /\ UNCHANGED evVars

\* The pre-hook without its condition: beforeUpdate is called on every run.
BeforeHookAlways(rec) == TRUE

\* before() { if (vm._isMounted && !vm._isDestroyed) callHook(vm,
\* "beforeUpdate") }, the option mountComponent gives the render watcher
\* (lifecycle.js:303-307).
BeforeHook(rec) == rec._isMounted /\ ~rec._isDestroyed

\* The next watcher of the queue: if (watcher.before) watcher.before().
FlushBefore ==
  /\ TopIs("flush")
  /\ Top.pc = "before"
  /\ world.index < Len(world.queue)
  /\ LET v  == world.queue[world.index + 1]
         s1 == Append(Below, [Top EXCEPT !.pc = "run"])
         go == BeforeHook(inst[v])
     IN  /\ stack' = IF go THEN HookPush(s1, v, "beforeUpdate") ELSE s1
         /\ world' = [(IF go THEN PushTarget(world, 0) ELSE world)
                        EXCEPT !.index = @ + 1]
         /\ log' = IF go THEN [log EXCEPT ![v] = Append(@, "beforeUpdate")] ELSE log
  /\ UNCHANGED <<nInst, inst, sticky, ncalls, rlast>>
  /\ UNCHANGED evVars

\* has[id] = null; watcher.run(): if (this.active) this.get()
FlushRun ==
  /\ TopIs("flush")
  /\ Top.pc = "run"
  /\ LET v  == world.queue[world.index]
         s1 == Append(Below, [Top EXCEPT !.pc = "before"])
     IN  /\ stack' = IF WatcherActive(inst[v])
                     THEN Append(s1, [t |-> "get", vm |-> v, pc |-> 1])
                     ELSE s1
         /\ world' = [world EXCEPT !.has = @ \ {v}]
  /\ UNCHANGED <<nInst, inst, log, sticky, ncalls, rlast>>
  /\ UNCHANGED evVars

Reverse(s) == [k \in 1..Len(s) |-> s[Len(s) + 1 - k]]

\* The queue is drained: resetSchedulerState(), then callUpdatedHooks on a
\* copy of the queue, from its end.
FlushEnd ==
  /\ TopIs("flush")
  /\ Top.pc = "before"
  /\ world.index >= Len(world.queue)
  /\ stack' = Append(Below, [Top EXCEPT !.pc = "updated", !.todo = Reverse(world.queue)])
  /\ world' = [world EXCEPT !.queue = <<>>, !.has = {}, !.index = 0,
                            !.waiting = FALSE, !.flushing = FALSE,
                            !.flushed = TRUE]
  /\ UNCHANGED <<nInst, inst, log, sticky, ncalls, rlast>>
  /\ UNCHANGED evVars

\* callUpdatedHooks: if (vm._watcher === watcher && vm._isMounted &&
\* !vm._isDestroyed) callHook(vm, "updated")
FlushUpdated ==
  /\ TopIs("flush")
  /\ Top.pc = "updated"
  /\ Top.todo # <<>>
  /\ LET v  == Head(Top.todo)
         s1 == Append(Below, [Top EXCEPT !.todo = Tail(@)])
         go == inst[v]._isMounted /\ ~inst[v]._isDestroyed
     IN  /\ stack' = IF go THEN HookPush(s1, v, "updated") ELSE s1
         /\ world' = IF go THEN PushTarget(world, 0) ELSE world
         /\ log' = IF go THEN [log EXCEPT ![v] = Append(@, "updated")] ELSE log
  /\ UNCHANGED <<nInst, inst, sticky, ncalls, rlast>>
  /\ UNCHANGED evVars

\* flushSchedulerQueue returns.
FlushReturn ==
  /\ TopIs("flush")
  /\ Top.pc = "updated"
  /\ Top.todo = <<>>
  /\ stack' = Below
  /\ ncalls' = 0
  /\ UNCHANGED evVars
  /\ UNCHANGED lifeVars

\* ------------------------------------------------------- resolveInject
\* The mutant of ResolveSource: the farthest provider on the chain wins.
RECURSIVE ResolveSourceFarthest(_, _, _)
ResolveSourceFarthest(st, source, key) ==
  IF source = 0 THEN 0
  ELSE LET up == ResolveSourceFarthest(st, st[source].parent, key)
       IN  IF up # 0 THEN up
           ELSE IF st[source]._provided.has /\ st[source]._provided.m[key] # NoProp
                THEN source ELSE 0

\* let source = vm; while (source) { if (source._provided &&
\* hasOwn(source._provided, provideKey)) break; source = source.$parent }
\* (inject.js:90-97): the instance the loop stops at, 0 when it runs out.
RECURSIVE ResolveSource(_, _, _)
ResolveSource(st, source, key) ==
  IF source = 0 THEN 0
  ELSE IF st[source]._provided.has /\ st[source]._provided.m[key] # NoProp
       THEN source
       ELSE ResolveSource(st, st[source].parent, key)

\* The body of the loop over the keys (inject.js:86-109) for one entry.
ResolveKey(st, v, e) ==
  LET source == ResolveSource(st, v, e.from)
  IN  IF source # 0 THEN Provided(st[source]._provided.m[e.from], source)
      ELSE IF e.dflt = "value" THEN DefaultValue
      ELSE IF e.dflt = "function" THEN DefaultMade(v)
      ELSE NoValue

\* resolveInject(inject, vm) (inject.js:43-113)
ResolveInject(st, inject, v) ==
  IF ~inject.has THEN NoResult
  ELSE [has |-> TRUE,
        m |-> [k \in LKeys |-> IF inject.m[k].decl
                               THEN ResolveKey(st, v, inject.m[k]) ELSE NoValue]]

\* initProvide(vm) (inject.js:10-15) with a provide option that yields the
\* map m.
InitProvide(v, m) ==
  /\ stack = <<>>
  /\ v <= nInst
  /\ ~inst[v]._provided.has
  /\ inst' = [inst EXCEPT ![v]._provided = [has |-> TRUE, m |-> m]]
  /\ UNCHANGED <<nInst, log, sticky, stack, ncalls>>
  /\ UNCHANGED renderVars
  /\ UNCHANGED evVars

\* initInjections(vm) calls resolveInject(vm.$options.inject, vm)
\* (inject.js:19); world.resolved keeps the arguments and the result of the
\* last call.
InitInjections(v, inject) ==
  /\ stack = <<>>
  /\ v <= nInst
  /\ world' = [world EXCEPT !.resolved =
                  [vm |-> v, inject |-> inject,
                   result |-> ResolveInject(inst, inject, v)]]
  /\ UNCHANGED <<nInst, inst, log, sticky, stack, ncalls, rlast>>
  /\ UNCHANGED evVars

\* ============================================================ specifications
InitAll ==
  /\ nInst = 0
  /\ inst = [v \in Ids |-> Blank]
  /\ _events = [v \in Ids |-> NoEvents]
  /\ _hasHookEvent = [v \in Ids |-> FALSE]
  /\ stack = <<>>
  /\ onceUid = 0
  /\ ncalls = 0
  /\ calls = [id \in 1..MaxOnce |-> 0]
  /\ uncaught = FALSE
  /\ lastOff = "none"
  /\ log = [v \in Ids |-> <<>>]
  /\ sticky = [v \in Ids |-> NoSticky]
  /\ world = NoWorld
  /\ rlast = NoRender

\* ---- the event bus of one instance
\* The state after new Vue() of a root instance: initLifecycle and
\* initEvents (part_000:12-35) have run.
InitEvents ==
  /\ nInst = 1
  /\ inst = InitLifecycle([v \in Ids |-> Blank], 1, 0, FALSE)
  /\ _events = [v \in Ids |-> NoEvents]
  /\ _hasHookEvent = [v \in Ids |-> FALSE]
  /\ stack = <<>>
  /\ onceUid = 0
  /\ ncalls = 0
  /\ calls = [id \in 1..MaxOnce |-> 0]
  /\ uncaught = FALSE
  /\ lastOff = "none"
  /\ log = [v \in Ids |-> <<>>]
  /\ sticky = [v \in Ids |-> NoSticky]
  /\ world = NoWorld
  /\ rlast = NoRender

NextEvents ==
  \/ \E f \in Fns : On(1, <<EvPlain>>, f)
  \/ \E f \in Fns : Once(1, EvPlain, f)
  \/ Off0(1)
  \/ Off1(1, <<EvPlain>>)
  \/ \E f \in Fns : Off2(1, <<EvPlain>>, f)
  \/ EmitBegin(1, EvPlain)
  \/ EmitStep
  \/ EmitEnd
  \/ FnReturn
  \/ FnThrow

SpecEvents == InitEvents /\ [][NextEvents]_vars

\* ---- callHook on one instance whose callbacks subscribe and unsubscribe
\* hook: listeners
HookPhases == {"beforeDestroy", "destroyed"}

NextHook ==
  \/ \E h \in HookPhases : On(1, <<HookEvent(h)>>, "f")
  \/ \E h \in HookPhases : Once(1, HookEvent(h), "f")
  \/ Off0(1)
  \/ \E h \in HookPhases : Off1(1, <<HookEvent(h)>>)
  \/ \E h \in HookPhases : Off2(1, <<HookEvent(h)>>, "f")
  \/ \E h \in HookPhases, n \in 0..MaxHandlers : CallHookBegin(1, h, n)
  \/ HookStep
  \/ HookEmit
  \/ HookEnd
  \/ EmitStep
  \/ EmitEnd
  \/ FnReturn
  \/ FnThrow

SpecHook == InitEvents /\ [][NextHook]_vars

\* ---- mounting and destroying a parent and its child, instances that
\* declare MaxHandlers functions for every phase
InitThrow ==
  /\ nInst = 2
  /\ inst = LET st == InitLifecycle(InitLifecycle([v \in Ids |-> Blank], 1, 0, FALSE),
                                    2, 1, FALSE)
            IN  [v \in Ids |-> [st[v] EXCEPT !.nHooks = MaxHandlers]]
  /\ _events = [v \in Ids |-> NoEvents]
  /\ _hasHookEvent = [v \in Ids |-> FALSE]
  /\ stack = <<>>
  /\ onceUid = 0
  /\ ncalls = 0
  /\ calls = [id \in 1..MaxOnce |-> 0]
  /\ uncaught = FALSE
  /\ lastOff = "none"
  /\ log = [v \in Ids |-> <<>>]
  /\ sticky = [v \in Ids |-> NoSticky]
  /\ world = NoWorld
  /\ rlast = NoRender

NextThrow ==
  \/ \E v \in Ids : MountBegin(v, 1)
  \/ MountStep
  \/ MountEnd
  \/ WatcherGet("vnode", "throw")
  \/ WatcherGetEnd
  \/ UpdateBegin
  \/ UpdateEnd
  \/ PatchDone(TRUE)
  \/ PatchReturn
  \/ \E v \in Ids : DestroyBegin(v)
  \/ DestroyStep
  \/ DestroyEnd
  \/ PatchStep
  \/ PatchEnd
  \/ HookStep
  \/ HookEmit
  \/ HookEnd
  \/ FnReturn
  \/ FnThrow

SpecThrow == InitThrow /\ [][NextThrow]_vars

\* ---- keep-alive activation over a tree of instances
NextActive ==
  \/ \E p \in 0..MaxDepth, abs \in BOOLEAN : stack = <<>> /\ NewVue(p, abs, MaxDepth)
  \/ \E v \in Ids : Activate(v)
  \/ \E v \in Ids : Deactivate(v)

SpecActive == InitAll /\ [][NextActive]_vars

\* ---- destruction over a tree of instances, with hooks and hook listeners
NextDestroy ==
  \/ \E p \in 0..MaxInst, abs \in BOOLEAN : Create(p, abs)
  \/ \E v \in Ids, r \in BOOLEAN : NewWatcher(v, r)
  \/ \E v \in Ids : stack = <<>> /\ v <= nInst /\ ~Listens(v, "hook:destroyed")
                       /\ On(v, <<"hook:destroyed">>, "f")
  \/ \E v \in Ids : DestroyBegin(v)
  \/ DestroyStep
  \/ DestroyEnd
  \/ PatchStep
  \/ PatchEnd
  \/ HookStep
  \/ HookEmit
  \/ HookEnd
  \/ EmitStep
  \/ EmitEnd
  \/ FnReturn
  \/ FnThrow

SpecDestroy == InitAll /\ [][NextDestroy]_vars

\* ---- rendering and updating one root instance
\* The state after new Vue(options) of a root instance, before its first
\* render: the build is production or not, the renderError option is given
\* or not, $el is the mount target (element 1) or undefined.
InitRender ==
  /\ nInst = 1
  /\ \E re \in BOOLEAN, el \in {0, 1} :
       inst = [InitLifecycle([v \in Ids |-> Blank], 1, 0, FALSE)
                 EXCEPT ![1].renderError = re, ![1].el = el]
  /\ \E prod \in BOOLEAN : world = [NoWorld EXCEPT !.production = prod, !.nElm = 1]
  /\ rlast = NoRender
  /\ _events = [v \in Ids |-> NoEvents]
  /\ _hasHookEvent = [v \in Ids |-> FALSE]
  /\ stack = <<>>
  /\ onceUid = 0
  /\ ncalls = 0
  /\ calls = [id \in 1..MaxOnce |-> 0]
  /\ uncaught = FALSE
  /\ lastOff = "none"
  /\ log = [v \in Ids |-> <<>>]
  /\ sticky = [v \in Ids |-> NoSticky]

NextRender ==
  \/ \E out \in RenderOutcomes, rerr \in RenderOutcomes : RenderCall(1, out, rerr)
  \/ \E reuse \in BOOLEAN : UpdateCall(reuse)

SpecRender == InitRender /\ [][NextRender]_vars

\* ---- mounting trees of instances
NextMount ==
  \/ \E p \in 0..MaxInst : stack = <<>> /\ Create(p, FALSE)
  \/ \E v \in Ids, el \in {0, 1} : MountBegin(v, el)
  \/ MountStep
  \/ MountEnd
  \/ WatcherGet("vnode", "throw")
  \/ WatcherGetEnd
  \/ UpdateBegin
  \/ UpdateEnd
  \/ \E hoc \in BOOLEAN : PatchCreateChild(hoc)
  \/ PatchThrow
  \/ PatchDone(FALSE)
  \/ PatchInsert
  \/ PatchReturn
  \/ \E v \in Ids : stack # <<>> /\ DestroyBegin(v)
  \/ DestroyStep
  \/ DestroyEnd
  \/ PatchStep
  \/ PatchEnd
  \/ HookStep
  \/ HookEmit
  \/ HookEnd
  \/ FnReturn
  \/ FnThrow

SpecMount == InitAll /\ [][NextMount]_vars

\* ---- updating and destroying a chain of mounted instances
NextUpdate ==
  \/ stack = <<>> /\ nInst = 0 /\ Create(0, FALSE)
  \/ \E v \in Ids : MountBegin(v, 1)
  \/ MountStep
  \/ MountEnd
  \/ WatcherGet("vnode", "throw")
  \/ WatcherGetEnd
  \/ UpdateBegin
  \/ UpdateEnd
  \/ \E hoc \in BOOLEAN : PatchCreateChild(hoc)
  \/ \E force \in BOOLEAN : PatchKeepChild(force)
  \/ PatchDropChild
  \/ \E reuse \in BOOLEAN : PatchDone(reuse)
  \/ PatchInsert
  \/ PatchReturn
  \/ \E v \in Ids : stack = <<>> /\ ForceUpdate(v)
  \/ FlushBegin
  \/ FlushBefore
  \/ FlushRun
  \/ FlushEnd
  \/ FlushUpdated
  \/ FlushReturn
  \/ DestroyStep
  \/ DestroyEnd
  \/ PatchStep
  \/ PatchEnd
  \/ HookStep
  \/ HookEmit
  \/ HookEnd
  \/ FnReturn
  \/ FnThrow

SpecUpdate == InitAll /\ [][NextUpdate]_vars

\* ---- update requests, flushes and destruction of root instances (no
\* instance has children here, so the patch of $destroy has none to destroy)
NextFlush ==
  \/ stack = <<>> /\ Create(0, FALSE)
  \/ \E v \in Ids : MountBegin(v, 1)
  \/ MountStep
  \/ MountEnd
  \/ WatcherGet("vnode", "throw")
  \/ WatcherGetEnd
  \/ UpdateBegin
  \/ UpdateEnd
  \/ PatchDone(TRUE)
  \/ PatchReturn
  \/ \E v \in Ids : ForceUpdate(v)
  \/ \E v \in Ids : Write(v)
  \/ FlushBegin
  \/ FlushBefore
  \/ FlushRun
  \/ FlushEnd
  \/ FlushUpdated
  \/ FlushReturn
  \/ \E v \in Ids : DestroyBegin(v)
  \/ DestroyStep
  \/ DestroyEnd
  \/ PatchEnd
  \/ HookStep
  \/ HookEmit
  \/ HookEnd
  \/ FnReturn
  \/ FnThrow

SpecFlush == InitAll /\ [][NextFlush]_vars

\* The scheduler with renders that can fail: a __patch__ that throws in the
\* first render leaves an instance with a render watcher and no _isMounted.
\* $destroy is called by the outermost caller only.
NextBefore ==
  \/ stack = <<>> /\ Create(0, FALSE)
  \/ \E v \in Ids : MountBegin(v, 1)
  \/ MountStep
  \/ MountEnd
  \/ WatcherGet("vnode", "throw")
  \/ WatcherGetEnd
  \/ UpdateBegin
  \/ UpdateEnd
  \/ PatchThrow
  \/ PatchDone(TRUE)
  \/ PatchReturn
  \/ \E v \in Ids : ForceUpdate(v)
  \/ FlushBegin
  \/ FlushBefore
  \/ FlushRun
  \/ FlushEnd
  \/ FlushUpdated
  \/ FlushReturn
  \/ \E v \in Ids : stack = <<>> /\ DestroyBegin(v)
  \/ DestroyStep
  \/ DestroyEnd
  \/ PatchEnd
  \/ HookStep
  \/ HookEmit
  \/ HookEnd
  \/ FnReturn
  \/ FnThrow

SpecBefore == InitAll /\ [][NextBefore]_vars

\* ---- provide / inject over a tree of instances
NextInject ==
  \/ \E p \in 0..MaxInst, abs \in BOOLEAN : stack = <<>> /\ Create(p, abs)
  \/ \E v \in Ids, m \in [PKeys -> PVals \cup {NoProp}] : InitProvide(v, m)
  \/ \E v \in Ids, inject \in Injects : InitInjections(v, inject)

SpecInject == InitAll /\ [][NextInject]_vars

\* ==================================================================== claims
EmitFrames == {k \in 1..Len(stack) : stack[k].t = "emit"}

DestroyFrames == {k \in 1..Len(stack) : stack[k].t = "destroy"}

\* Number of entries of the sequence s equal to x.
RECURSIVE Count(_, _)
Count(s, x) == IF s = <<>> THEN 0 ELSE (IF s[1] = x THEN 1 ELSE 0) + Count(Tail(s), x)

\* C1: a function registered with $once is invoked at most once, whatever
\* emissions follow, re-entrant ones from other subscribers included.
C1_OnceInvokedOnce == \A id \in 1..MaxOnce : calls[id] <= 1

\* What $off(e, fn) must do to the list of e: nothing when no entry
\* matches, else remove exactly the last matching entry.
C2_Post(f) ==
  LET old == _events[1][EvPlain].cbs
      new == _events'[1][EvPlain].cbs
      fn  == PlainCb(f)
  IN  IF CountMatches(old, fn) = 0 THEN new = old
      ELSE /\ \E k \in 1..Len(old) :
                /\ Matches(old[k], fn)
                /\ \A j \in (k + 1)..Len(old) : ~Matches(old[j], fn)
                /\ new = SubSeq(old, 1, k - 1) \o SubSeq(old, k + 1, Len(old))
           /\ CountMatches(new, fn) = CountMatches(old, fn) - 1
           /\ _events'[1][EvPlain].has

\* C2: $off(event, fn) removes exactly one entry, the last registered one
\* that is fn or a $once wrapper of fn, and leaves the list alone when
\* there is none.
C2_OffRemovesLast == [][\A f \in Fns : Off2(1, <<EvPlain>>, f) => C2_Post(f)]_vars

C2_Witness ==
  /\ lastOff = "dup"
  /\ \E f \in Fns : CountMatches(_events[1][EvPlain].cbs, PlainCb(f)) = 1
  /\ Len(_events[1][EvPlain].cbs) >= 2

\* C3: $emit calls the subscribers that were registered when it began, in
\* registration order, whatever the callbacks subscribe or unsubscribe.
C3_EmitInvokesSnapshot ==
  \A k \in EmitFrames :
    /\ stack[k].l = Len(stack[k].exp)
    /\ stack[k].i <= stack[k].l + 1
    /\ stack[k].inv = SubSeq(stack[k].exp, 1, stack[k].i - 1)

C3_Witness ==
  /\ stack # <<>>
  /\ Top.t = "emit"
  /\ Top.i > Top.l
  /\ Top.l >= 2
  /\ Top.inv = Top.exp
  /\ _events[Top.vm][Top.ev] # ListOf(Top.exp)

\* C4: a callback that throws does not stop the emission: the error is
\* caught, nothing reaches the caller of $emit, and the callbacks after it
\* are still called.
C4_EmitSurvivesThrow ==
  /\ ~uncaught
  /\ \A k \in EmitFrames :
       stack[k].threw > 0 =>
         /\ stack[k].threw < stack[k].i
         /\ \A j \in stack[k].threw..(stack[k].i - 1) : stack[k].inv[j] = stack[k].exp[j]

C4_Witness ==
  /\ stack # <<>>
  /\ Top.t = "emit"
  /\ Top.threw = 1
  /\ Top.l >= 2
  /\ Top.i > Top.l
  /\ Len(Top.inv) = Top.l

\* C5 as stated: after a direct deactivation of C, a direct deactivation of
\* an ancestor and a direct activation of that ancestor, C has
\* _inactive === true and its activated hook has not fired.
C5_StickyAsStated ==
  \A c \in Ids : sticky[c].n = 3 => (inst[c]._inactive = "true" /\ ~sticky[c].act)

\* C5: when the direct deactivation of C left C with _inactive === true,
\* then from that call until a direct activation of C itself, whatever
\* ancestors are deactivated and activated, C keeps _inactive === true and
\* its activated hook does not fire.
C5_StickyDeactivation ==
  \A c \in Ids :
    (sticky[c].n >= 1 /\ sticky[c].took) =>
      (inst[c]._inactive = "true" /\ inst[c]._directInactive /\ ~sticky[c].act)

C5_Witness ==
  \E c \in Ids :
    /\ sticky[c].n = 3
    /\ sticky[c].took
    /\ sticky[c].a \in Ancestors(inst, c)
    /\ inst[sticky[c].a]._inactive = "false"
    /\ inst[c]._inactive = "true"

\* C6 as stated: over any sequence of $destroy calls on an instance,
\* re-entrant ones from its hooks included, beforeDestroy and destroyed
\* each fire at most once.
C6_DestroyOnce ==
  \A v \in Ids : Count(log[v], "beforeDestroy") <= 1 /\ Count(log[v], "destroyed") <= 1

\* C7: an instance with _isDestroyed is in the $children of no instance
\* whose _isBeingDestroyed is false.
C7_DestroyedNotInLiveChildren ==
  \A v \in 1..nInst : \A p \in 1..nInst :
    (inst[v]._isDestroyed /\ ~inst[p]._isBeingDestroyed) =>
      \A k \in 1..Len(inst[p].children) : inst[p].children[k] # v

C7_Witness ==
  \E v \in 1..nInst :
    /\ inst[v]._isDestroyed
    /\ ~inst[v].abstract
    /\ inst[v].parent # 0
    /\ ~inst[inst[v].parent]._isBeingDestroyed
    /\ inst[inst[v].parent].children = <<>>

\* The order of the steps as the claim lists them.
C8_Order ==
  <<"beforeDestroy", "_isBeingDestroyed", "detach", "teardown", "_isDestroyed",
    "patch", "destroyed", "$off">>

\* The statements of s that the claim lists.
RECURSIVE C8_Listed(_)
C8_Listed(s) ==
  IF s = <<>> THEN <<>>
  ELSE (IF s[1] \in Range(C8_Order) THEN <<s[1]>> ELSE <<>>) \o C8_Listed(Tail(s))

\* C8: every call of $destroy that passes the guard executes its steps in
\* the listed order; and when a hook:destroyed listener was registered as
\* the call began, a hook:destroyed listener has been called by the time the
\* subscriptions are cleared.
C8_DestroyOrder ==
  \A k \in DestroyFrames :
    LET fr == stack[k]
        d  == C8_Listed(fr.done)
    IN  /\ Len(d) <= Len(C8_Order)
        /\ d = SubSeq(C8_Order, 1, Len(d))
        /\ (fr.had /\ Count(fr.done, "$off") > 0) =>
             Count(log[fr.vm], "hook:destroyed") > 0

C8_Witness ==
  /\ TopIs("destroy")
  /\ C8_Listed(Top.done) = C8_Order
  /\ Top.had
  /\ Count(log[Top.vm], "hook:destroyed") = 1
  /\ Count(log[Top.vm], "beforeDestroy") = 1

C10_RenderErrorFallback ==
  rlast.ok =>
    /\ rlast.ret.k = "vnode"
    /\ rlast.threw =>
         /\ ~uncaught
         /\ rlast.reported >= 1
         /\ (~inst[rlast.vm].renderError /\ rlast.prev.k = "vnode") =>
              /\ rlast.ret = rlast.prev
              /\ rlast.updated =>
                   /\ inst[rlast.vm]._vnode = rlast.prev
                   /\ inst[rlast.vm].el = rlast.prevEl
         /\ (~inst[rlast.vm].renderError /\ rlast.prev.k # "vnode") =>
              /\ rlast.ret.isComment
              /\ rlast.ret.id # rlast.prev.id

C10_Witness ==
  /\ rlast.ok
  /\ rlast.threw
  /\ rlast.updated
  /\ ~inst[rlast.vm].renderError
  /\ rlast.prev.k = "vnode"
  /\ ~rlast.prev.isComment
  /\ inst[rlast.vm].el = rlast.prevEl
  /\ inst[rlast.vm].el # 0

\* The instances on the $parent chain of v, v first.
RECURSIVE Chain(_, _)
Chain(st, v) == IF v = 0 THEN <<>> ELSE <<v>> \o Chain(st, st[v].parent)

\* What the claim says the property of local name k must be after
\* resolving the entry e for v: the value of the first instance on the chain
\* that has the key, else the default, else nothing.
C11_Expected(v, e) ==
  LET ch   == Chain(inst, v)
      has  == {i \in 1..Len(ch) :
                 inst[ch[i]]._provided.has /\ inst[ch[i]]._provided.m[e.from] \in PVals}
  IN  IF has # {}
      THEN LET i == CHOOSE i \in has : \A j \in has : i <= j
           IN  Provided(inst[ch[i]]._provided.m[e.from], ch[i])
      ELSE IF e.dflt = "value" THEN DefaultValue
      ELSE IF e.dflt = "function" THEN DefaultMade(v)
      ELSE NoValue

\* C11: resolveInject gives every declared key the value of the nearest
\* provider on the $parent chain that starts at the requesting instance,
\* else the declared default (a default function called with the instance
\* as this), else no property, and it completes in each case.
C11_ResolveInject ==
  [][(world'.resolved.inject.has
        /\ InitInjections(world'.resolved.vm, world'.resolved.inject)) =>
       LET v      == world'.resolved.vm
           inject == world'.resolved.inject
       IN  /\ world'.resolved.result.has
           /\ \A k \in LKeys :
                world'.resolved.result.m[k] =
                  IF inject.m[k].decl THEN C11_Expected(v, inject.m[k]) ELSE NoValue]_vars

C11_Witness ==
  \E v \in 1..nInst :
    /\ inst[v].parent # 0
    /\ inst[v]._provided.has /\ inst[v]._provided.m["theme"] = "dark"
    /\ inst[inst[v].parent]._provided.has
    /\ inst[inst[v].parent]._provided.m["theme"] = "light"
    /\ inst[inst[v].parent]._provided.m["lang"] = "dark"
    /\ inst[v]._provided.m["lang"] = NoProp
    /\ world.resolved.vm = v
    /\ world.resolved.result.m["a"] = Provided("dark", v)
    /\ world.resolved.result.m["b"] = Provided("dark", inst[v].parent)

\* The hook has been called on the instance.
Fired(v, hook) == \E k \in 1..Len(log[v]) : log[v][k] = hook

\* The frames of the _update calls in progress on the instance.
UpdateFrames(v) == {k \in 1..Len(stack) : stack[k].t = "_update" /\ stack[k].vm = v}

\* The render function of the instance has been evaluated (its value is
\* vm._vnode, or the argument of an _update call in progress), and the first
\* patch has returned to _update.
Rendered(v) == inst[v]._vnode.k = "vnode" \/ UpdateFrames(v) # {}
Patched(v) == inst[v]._vnode.k = "vnode" /\ UpdateFrames(v) = {}

\* C12: mountComponent fires beforeMount before the first render, runs the
\* first render and patch before it returns, and at its return an instance
\* without a placeholder node ($vnode == null) has _isMounted set and has
\* fired mounted, an instance with one has _isMounted false and has not;
\* mounted never fires before the first render and patch of the instance.
C12_MountComponent ==
  /\ \A v \in 1..nInst :
       /\ Rendered(v) => Fired(v, "beforeMount")
       /\ Fired(v, "mounted") => Patched(v) /\ inst[v]._isMounted
       /\ Count(log[v], "mounted") <= 1
  /\ (TopIs("mount") /\ Top.pc > Len(MountSteps)) =>
       /\ Patched(Top.vm)
       /\ inst[Top.vm].vnode.k # "vnode" =>
            inst[Top.vm]._isMounted /\ Fired(Top.vm, "mounted")
       /\ inst[Top.vm].vnode.k = "vnode" =>
            ~inst[Top.vm]._isMounted /\ ~Fired(Top.vm, "mounted")

\* A root and a child of it made by its patch are both mounted: the root by
\* mountComponent, the child by the insert hook after its mountComponent
\* returned.
C12_Witness ==
  /\ stack = <<>>
  /\ ~uncaught
  /\ \E v, c \in 1..nInst :
       /\ inst[v].vnode.k # "vnode" /\ inst[v]._isMounted /\ Fired(v, "mounted")
       /\ inst[c].parent = v /\ inst[c].vnode.k = "vnode"
       /\ inst[c]._isMounted /\ Fired(c, "mounted")

\* C13: whenever no call is in progress, every wrapper has the $el of its
\* child: for every pair (p, v) with v.$parent === p and v.$vnode ===
\* p._vnode, p.$el equals v.$el, at every level of a chain of wrappers.
C13_WrapperReflectsChild ==
  (stack = <<>> /\ ~uncaught) =>
    \A v \in 1..nInst : UpdateWrapper(inst, v) => inst[inst[v].parent].el = inst[v].el

\* C14: while the patch collaborator runs for an _update call on vm,
\* activeInstance is vm; and when an _update call ends, by return or by an
\* exception, activeInstance is the value it had when the call began (the
\* one setActiveInstance kept), for nested calls too.
C14_ActiveInstance ==
  [][/\ (IF stack' = <<>> THEN FALSE ELSE stack'[Len(stack')].t = "__patch__")
          => world'.activeInstance = stack'[Len(stack')].vm
     /\ \A k \in 1..Len(stack) :
          (stack[k].t = "_update" /\ Len(stack') < k)
            => world'.activeInstance = stack[k].restore]_vars

\* $destroy has run on the instance: it is destroyed and no $destroy call on
\* it is in progress.
Destroyed(v) ==
  /\ inst[v]._isDestroyed
  /\ \A k \in DestroyFrames : stack[k].vm # v

\* The frames the step pushes.
Pushed == {k \in 1..Len(stack') : k > Len(stack)}

\* C15: once $destroy has run on an instance that had a render watcher, no
\* flush and no $forceUpdate runs its render computation again: no
\* Watcher.get begins for it, its render function is not evaluated and
\* _update is not called on it, and beforeUpdate is not called on it.
C15_DestroyCancelsUpdate ==
  [][\A v \in 1..nInst :
       (Destroyed(v) /\ v \in world.cancelled) =>
         \A k \in Pushed :
           /\ stack'[k].t \in {"get", "_update"} => stack'[k].vm # v
           /\ stack'[k].t = "hook" =>
                stack'[k].vm # v \/ stack'[k].hook # "beforeUpdate"]_vars

\* A flush reaches the render watcher of an instance destroyed while its
\* update was pending, and goes on without running it.
C15_Witness ==
  /\ TopIs("flush")
  /\ Top.pc = "before"
  /\ world.index > 0
  /\ LET v == world.queue[world.index]
     IN  /\ Destroyed(v)
         /\ v \in world.cancelled
         /\ world.req[v] > 0
         /\ world.ran[v] = 0

\* C16: when a flush has drained its queue, the render computation of every
\* instance for which one or more updates were requested since the flush
\* before it (writes to a cell its render read, $forceUpdate calls), and
\* which is still alive, has run exactly once in it, and once more for each
\* request queued while the flush itself ran.
C16_Coalescing ==
  world.flushed =>
    \A v \in 1..nInst :
      (world.req[v] > 0 /\ WatcherActive(inst[v]) /\ ~inst[v]._isBeingDestroyed)
        => world.ran[v] = 1 + world.late[v]

\* Two or more requests were pending for an instance and the flush ran its
\* render computation once.
C16_Witness ==
  /\ world.flushed
  /\ \E v \in 1..nInst :
       /\ world.req[v] = 2
       /\ WatcherActive(inst[v])
       /\ ~inst[v]._isBeingDestroyed
       /\ world.ran[v] = 1
       /\ world.late[v] = 0

\* The hook frames of the stack.
HookFrames == {k \in 1..Len(stack) : stack[k].t = "hook"}

\* C17: callHook calls the hook functions of the phase in the order of their
\* registration; hook:<phase> is emitted only after all of them were called
\* and only if _hasHookEvent is set, and once callHook has passed the test
\* of the flag it has emitted hook:<phase> once if the flag is set and not
\* at all if it is not.
C17_CallHook ==
  \A k \in HookFrames :
    LET h == stack[k]
    IN  /\ h.done = [j \in 1..(h.i - 1) |-> j]
        /\ h.sent > 0 => Len(h.done) = h.l /\ _hasHookEvent[h.vm]
        /\ h.emitted => h.sent = (IF _hasHookEvent[h.vm] THEN 1 ELSE 0)
        /\ (k < Len(stack) /\ stack[k + 1].t = "emit") =>
              /\ stack[k + 1].ev = HookEvent(h.hook)
              /\ h.sent = 1

\* A listener of hook:<phase> runs after the two hook functions of the phase.
C17_Witness ==
  /\ Len(stack) = 3
  /\ stack[1].t = "hook"
  /\ stack[1].done = <<1, 2>>
  /\ stack[1].sent = 1
  /\ stack[2].t = "emit"
  /\ stack[3].t = "fn"

\* The instance has a callback registered under a name that begins with hook:.
HookRegistered(evs) ==
  \E e \in EventNames : HookRE(e) /\ evs[e].has /\ evs[e].cbs # <<>>

\* Number of callbacks registered under names that begin with hook:.
RECURSIVE HookCount(_, _)
HookCount(evs, names) ==
  IF names = {} THEN 0
  ELSE LET e == CHOOSE x \in names : TRUE
       IN  (IF HookRE(e) /\ evs[e].has THEN Len(evs[e].cbs) ELSE 0)
             + HookCount(evs, names \ {e})

TargetOf(f) ==
  IF f.t = "hook" THEN <<0>>
  ELSE IF f.t = "get" THEN (IF f.pc > 1 THEN <<f.vm>> ELSE <<>>)
  ELSE <<>>

RECURSIVE Targets(_)
Targets(s) == IF s = <<>> THEN <<>> ELSE TargetOf(Head(s)) \o Targets(Tail(s))

\* The running code is a hook function, or a listener of the hook: event
\* that callHook emits.
InHook ==
  /\ TopIs("fn")
  /\ \/ stack[Len(stack) - 1].t = "hook"
     \/ /\ stack[Len(stack) - 1].t = "emit"
        /\ Len(stack) > 2
        /\ stack[Len(stack) - 2].t = "hook"

\* C19: the target stack holds exactly what the callHook and Watcher.get
\* calls in progress have pushed, in the order of the calls, and the
\* current target is its last entry (none when it is empty): so when
\* callHook returns the target is the one current before the call, also
\* after a hook function threw and around nested callHook calls; and while
\* a hook function or a hook: listener runs the target is undefined.
C19_TargetBalanced ==
  /\ world.targetStack = Targets(stack)
  /\ world.target = IF world.targetStack = <<>> THEN 0
                    ELSE world.targetStack[Len(world.targetStack)]
  /\ InHook => world.target = 0

\* Inside the render watcher of an instance, a hook function of a callHook
\* in progress has thrown, and a hook function has called $destroy, whose
\* own callHook is in progress.
C19_Witness ==
  /\ Len(world.targetStack) > 2
  /\ world.targetStack[1] # 0
  /\ \E k \in HookFrames : stack[k].threw > 0
  /\ \E k \in HookFrames : k < Len(stack) /\ stack[k + 1].t = "fn"
                              /\ \E j \in HookFrames : j > k

\* C20: no exception of a hook function leaves callHook; a callHook in
\* which a hook function threw still calls every hook function of the
\* phase; a $destroy call whose beforeDestroy hook threw has, when it
\* returns, taken the instance out of the $children of a parent that is not
\* being destroyed, torn down the watchers the instance had, set
\* _isDestroyed and called the destroyed hooks; a mountComponent call whose beforeMount hook threw has,
\* when it returns, created the render watcher and rendered and patched.
C20_HookThrowDoesNotAbort ==
  /\ ~uncaught
  /\ \A k \in HookFrames :
       (stack[k].threw > 0 /\ stack[k].emitted) =>
          stack[k].done = [j \in 1..stack[k].l |-> j]
  /\ (TopIs("destroy") /\ Top.pc > Len(DestroySteps) /\ "beforeDestroy" \in Top.failed) =>
       LET v == Top.vm
           p == inst[v].parent
       IN  /\ inst[v]._isDestroyed
           /\ \A k \in 1..Top.nw : ~inst[v]._watchers[k]
           /\ Fired(v, "destroyed")
           /\ (p # 0 /\ ~inst[p]._isBeingDestroyed /\ ~inst[v].abstract) =>
                \A k \in 1..Len(inst[p].children) : inst[p].children[k] # v
  /\ (TopIs("mount") /\ Top.pc > Len(MountSteps) /\ "beforeMount" \in Top.failed) =>
       /\ inst[Top.vm]._watcher # 0
       /\ Patched(Top.vm)

\* $destroy returns on a mounted child whose parent is alive, after one of
\* its beforeDestroy hooks threw.
C20_Witness ==
  /\ TopIs("destroy")
  /\ Top.pc > Len(DestroySteps)
  /\ "beforeDestroy" \in Top.failed
  /\ inst[Top.vm].parent # 0
  /\ ~inst[inst[Top.vm].parent]._isBeingDestroyed
  /\ inst[Top.vm]._watcher # 0
  /\ Top.nw > 0
  /\ inst[Top.vm]._isDestroyed

\* The first non-abstract instance found walking up from p along $parent,
\* 0 when there is none.
RECURSIVE WalkUp(_, _)
WalkUp(st, p) ==
  IF p = 0 THEN 0
  ELSE IF ~st[p].abstract THEN p
  ELSE WalkUp(st, st[p].parent)

\* The instances that have v in their $children.
ParentsOf(v) == {p \in 1..nInst : v \in Range(inst[p].children)}

\* C21: a non-abstract instance created with a parent, not yet being
\* destroyed, is once in the $children of the first non-abstract instance
\* found walking up from options.parent, in no other $children, and that
\* instance is its $parent; an abstract instance is in no $children; an
\* instance in p.$children has $parent p; and $root is the $root of
\* $parent, or the instance itself without a parent.
C21_TreeEdges ==
  \A v \in 1..nInst :
    /\ inst[v].abstract => ParentsOf(v) = {}
    /\ (~inst[v].abstract /\ inst[v].optParent # 0 /\ ~inst[v]._isBeingDestroyed) =>
         /\ inst[v].parent = WalkUp(inst, inst[v].optParent)
         /\ ParentsOf(v) = {inst[v].parent}
         /\ Cardinality({k \in 1..Len(inst[inst[v].parent].children) :
                           inst[inst[v].parent].children[k] = v}) = 1
    /\ \A p \in ParentsOf(v) : inst[v].parent = p
    /\ inst[v].root = IF inst[v].parent = 0 THEN v ELSE inst[inst[v].parent].root

\* Some proper ancestor of v has _inactive true.
UnderInactive(st, v) == \E a \in Ancestors(st, v) : st[a]._inactive = "true"

\* The step is a direct activateChildComponent(vm, true) call made while an
\* ancestor of vm has _inactive true.
ActivateUnderInactive ==
  /\ world'.act.tick # world.act.tick
  /\ world'.act.op = "activate"
  /\ UnderInactive(inst, world'.act.vm)

\* C22 as stated: such a call leaves _inactive and _directInactive of vm
\* unchanged, changes no descendant and fires no activated hook.
C22_ActivateBlockedAsStated ==
  [][ActivateUnderInactive =>
       /\ inst'[world'.act.vm]._inactive = inst[world'.act.vm]._inactive
       /\ inst'[world'.act.vm]._directInactive = inst[world'.act.vm]._directInactive
       /\ \A x \in 1..nInst : x # world'.act.vm => inst'[x] = inst[x]
       /\ world'.act.fired = <<>>]_vars

\* C22, amended: such a call sets _directInactive of vm to false and does
\* nothing else: _inactive of vm and every other instance are unchanged and
\* no activated hook fires.
C22_ActivateBlocked ==
  [][ActivateUnderInactive =>
       /\ inst' = [inst EXCEPT ![world'.act.vm]._directInactive = FALSE]
       /\ world'.act.fired = <<>>]_vars

\* A direct activation was made on an instance deactivated directly before,
\* under an inactive ancestor that is not its $parent.
C22_Witness ==
  /\ world.act.op = "activate"
  /\ world.act.direct
  /\ world.act.fired = <<>>
  /\ UnderInactive(inst, world.act.vm)
  /\ inst[inst[world.act.vm].parent]._inactive # "true"
  /\ inst[world.act.vm]._inactive = "true"
  /\ ~inst[world.act.vm]._directInactive

\* The instances reachable from v through $children, v included.
RECURSIVE Subtree(_, _)
Subtree(st, v) ==
  {v} \cup UNION {Subtree(st, st[v].children[k]) : k \in 1..Len(st[v].children)}

\* The same, without going below an instance that has _inactive true.
RECURSIVE SubtreeToInactive(_, _)
SubtreeToInactive(st, v) ==
  {v} \cup UNION {IF st[st[v].children[k]]._inactive = "true"
                  THEN {st[v].children[k]}
                  ELSE SubtreeToInactive(st, st[v].children[k]) :
                  k \in 1..Len(st[v].children)}

\* The step is a direct deactivateChildComponent(vm, true) call.
DeactivateStep ==
  /\ world'.act.tick # world.act.tick
  /\ world'.act.op = "deactivate"

\* In the sequence fired, the hook of a descendant comes before the hook of
\* its ancestor.
DescendantsFirst(st, fired) ==
  \A i, j \in 1..Len(fired) : fired[j] \in Ancestors(st, fired[i]) => i < j

\* What a direct deactivation of an instance that is not inactive and has no
\* inactive ancestor does to the set S of instances: all of them have
\* _inactive true, deactivated fired once on those that were not inactive
\* and on no other, descendants first.
DeactivatesAll(S) ==
  /\ \A x \in S :
       /\ inst'[x]._inactive = "true"
       /\ Count(world'.act.fired, x) = IF inst[x]._inactive = "true" THEN 0 ELSE 1
  /\ DescendantsFirst(inst, world'.act.fired)

\* C23 as stated: the effect covers every instance reachable from vm through
\* $children; and a direct deactivation of an inactive instance fires no
\* hook.
C23_DeactivateAsStated ==
  [][DeactivateStep =>
       LET v == world'.act.vm
       IN  /\ (inst[v]._inactive # "true" /\ ~UnderInactive(inst, v)) =>
                DeactivatesAll(Subtree(inst, v))
           /\ inst[v]._inactive = "true" => world'.act.fired = <<>>]_vars

\* C23, amended: the effect covers the instances reachable from vm through
\* $children without going below an instance that was already inactive; no
\* other instance is changed and no hook fires on one; and a direct
\* deactivation of an inactive instance fires no hook.
C23_Deactivate ==
  [][DeactivateStep =>
       LET v == world'.act.vm
       IN  /\ (inst[v]._inactive # "true" /\ ~UnderInactive(inst, v)) =>
                /\ DeactivatesAll(SubtreeToInactive(inst, v))
                /\ \A x \in (1..nInst) \ SubtreeToInactive(inst, v) :
                     inst'[x] = inst[x] /\ Count(world'.act.fired, x) = 0
           /\ inst[v]._inactive = "true" => world'.act.fired = <<>>]_vars

\* A direct deactivation has fired deactivated on a chain of three
\* instances.
C23_Witness ==
  /\ world.act.op = "deactivate"
  /\ Len(world.act.fired) = 3
  /\ world.act.fired[3] = world.act.vm
  /\ world.act.fired[2] \in Ancestors(inst, world.act.fired[1])
  /\ \A x \in 1..nInst : inst[x]._inactive = "true"

\* C24: no instance with _inactive false has an ancestor on its $parent
\* chain with _inactive true.
C24_NoActiveInInactiveTree ==
  \A v \in 1..nInst : inst[v]._inactive = "false" => ~UnderInactive(inst, v)

\* C25: on every instance the hooks activated and deactivated alternate:
\* the last of them that fired differs from the one that fired before it.
C25_HooksAlternate ==
  \A v \in 1..nInst : sticky[v].last # "none" => sticky[v].last # sticky[v].prev

\* deactivated, activated and deactivated again have fired on an instance
\* that was not the target of the last call.
C25_Witness ==
  \E v \in 1..nInst :
    /\ sticky[v].last = "deactivated"
    /\ sticky[v].prev = "activated"
    /\ world.act.vm # v
    /\ Count(world.act.fired, v) = 1

\* The three lifecycle flags of an instance record.
Flags(rec) == <<rec._isMounted, rec._isBeingDestroyed, rec._isDestroyed>>

\* C26: the lifecycle flags only move forward: after every step
\* _isDestroyed implies _isBeingDestroyed on every instance, and no step
\* sets _isMounted, _isBeingDestroyed or _isDestroyed of an existing instance
\* back to false.
C26_FlagsForward ==
  [][/\ \A v \in 1..nInst :
          \A k \in 1..3 : Flags(inst[v])[k] => Flags(inst'[v])[k]
     /\ \A v \in 1..nInst' :
          inst'[v]._isDestroyed => inst'[v]._isBeingDestroyed]_vars

\* A mounted instance has been destroyed: all three flags are set.
C26_Witness ==
  \E v \in 1..nInst :
    /\ stack = <<>>
    /\ Flags(inst[v]) = <<TRUE, TRUE, TRUE>>
    /\ Fired(v, "mounted") /\ Fired(v, "destroyed")

\* A step that calls the beforeUpdate hook of v.
FiresBeforeUpdate(v) ==
  /\ Len(log'[v]) = Len(log[v]) + 1
  /\ log'[v][Len(log'[v])] = "beforeUpdate"

\* A step of the scheduler that starts the render computation of v.
FlushRenders(v) ==
  /\ TopIs("flush")
  /\ Len(stack') = Len(stack) + 1
  /\ stack'[Len(stack')].t = "get"
  /\ stack'[Len(stack')].vm = v

\* A step of mountComponent that starts the first render of v.
MountRenders(v) ==
  /\ TopIs("mount")
  /\ Len(stack') = Len(stack) + 1
  /\ stack'[Len(stack')].t = "get"
  /\ stack'[Len(stack')].vm = v

\* C27: beforeUpdate is called on an instance only while it is mounted and
\* not destroyed; it has not been called when the first render of an
\* instance starts; and when the scheduler renders a mounted instance that
\* is not destroyed, beforeUpdate is the last hook called on it.
C27_BeforeUpdate ==
  [][\A v \in 1..nInst :
       /\ FiresBeforeUpdate(v) => inst[v]._isMounted /\ ~inst[v]._isDestroyed
       /\ MountRenders(v) => ~Fired(v, "beforeUpdate")
       /\ (FlushRenders(v) /\ inst[v]._isMounted /\ ~inst[v]._isDestroyed) =>
            log[v][Len(log[v])] = "beforeUpdate"]_vars

\* The scheduler renders a mounted instance after its beforeUpdate hook,
\* having rendered before it, with no beforeUpdate, an instance whose first
\* render threw before _isMounted was set.
C27_Witness ==
  /\ TopIs("get")
  /\ Len(stack) = 2
  /\ stack[1].t = "flush"
  /\ inst[Top.vm]._isMounted
  /\ log[Top.vm][Len(log[Top.vm])] = "beforeUpdate"
  /\ \E u \in 1..nInst :
       /\ ~inst[u]._isMounted
       /\ ~Fired(u, "beforeUpdate")
       /\ world.ran[u] > 0
       /\ \E k \in 1..(world.index - 1) : world.queue[k] = u

====
